---- MODULE Spec2Model ----
(***************************************************************************)
(* Precinct / zone overlay, classification and deterministic narrative of  *)
(* the Map Demonstrator dashboard (src/unnamed/part_001, second component, *)
(* lines 811..2574).                                                       *)
(*                                                                         *)
(* Abstractions used throughout:                                           *)
(*  - A polygon part is a finite set of cells of the plane; cell c has    *)
(*    area c, the planar area of a part is the sum over its cells and the  *)
(*    intersection of two parts is set intersection.  A geometry (Polygon  *)
(*    / MultiPolygon) is the                                               *)
(*    sequence of its parts; a null geometry is the empty sequence.        *)
(*  - Real numbers produced by division are exact fractions [num, den].    *)
(*  - Text is a TLA+ string built with \o exactly as the template builds   *)
(*    it.                                                                  *)
(***************************************************************************)
EXTENDS Integers, Sequences, FiniteSets, TLC

(***************************************************************************)
(* Bounds of the model                                                     *)
(***************************************************************************)
NCells == 2
MaxZones == 2
MaxVal == 1
MaxCalls == 4

Cells == 1..NCells

(***************************************************************************)
(* Exact fractions                                                         *)
(***************************************************************************)
Frac(n, d) == [num |-> n, den |-> d]
FracLT(a, b) == a.num * b.den < b.num * a.den
FracLE(a, b) == a.num * b.den <= b.num * a.den
FracPos(a) == a.num > 0

RECURSIVE SumSeq(_)
SumSeq(s) == IF s = <<>> THEN 0 ELSE Head(s) + SumSeq(Tail(s))

\* Array.prototype.sort((a,b) => key(b) - key(a)): a stable sort, descending
\* by key.  SortedIdx gives the order of the indices 1..n of the keys.
RECURSIVE SortedIdx(_, _)
SortedIdx(keys, n) ==
  IF n = 0 THEN <<>>
  ELSE LET prev == SortedIdx(keys, n - 1)
           before == SelectSeq(prev, LAMBDA j : ~FracLT(keys[j], keys[n]))
           after == SelectSeq(prev, LAMBDA j : FracLT(keys[j], keys[n]))
       IN before \o <<n>> \o after

SortDescBy(s, keys) ==
  LET idx == SortedIdx(keys, Len(s)) IN [i \in 1..Len(s) |-> s[idx[i]]]

(***************************************************************************)
(* Classifier                                                              *)
(***************************************************************************)
DefaultBreaks == <<Frac(591, 1), Frac(1097, 1), Frac(1356, 1), Frac(2742, 1)>>

\* val < br[i] for an integer val and a fractional threshold
LessThanBreak(val, b) == val * b.den < b.num

\* (variant: thresholds compared with <= instead of <)
jobsValueToClass_Inclusive(val, breaks) ==
  LET br == IF Len(breaks) = 4 THEN breaks ELSE DefaultBreaks
      le(b) == val * b.den <= b.num
  IN IF le(br[1]) THEN 0 ELSE IF le(br[2]) THEN 1 ELSE IF le(br[3]) THEN 2
     ELSE IF le(br[4]) THEN 3 ELSE 4

\* (variant: only the first threshold compared with <=)
jobsValueToClass_FirstInclusive(val, breaks) ==
  LET br == IF Len(breaks) = 4 THEN breaks ELSE DefaultBreaks
      lt(b) == val * b.den < b.num
  IN IF val * br[1].den <= br[1].num THEN 0 ELSE IF lt(br[2]) THEN 1 ELSE IF lt(br[3]) THEN 2
     ELSE IF lt(br[4]) THEN 3 ELSE 4

\* (variant: the results of the second and third tests exchanged)
jobsValueToClass_Swapped(val, breaks) ==
  LET br == IF Len(breaks) = 4 THEN breaks ELSE DefaultBreaks
      lt(b) == val * b.den < b.num
  IN IF lt(br[1]) THEN 0 ELSE IF lt(br[2]) THEN 2 ELSE IF lt(br[3]) THEN 1
     ELSE IF lt(br[4]) THEN 3 ELSE 4

\* (variant: the thresholds of the state are never used)
jobsValueToClass_AlwaysDefault(val, breaks) ==
  LET br == DefaultBreaks
      lt(b) == val * b.den < b.num
  IN IF lt(br[1]) THEN 0 ELSE IF lt(br[2]) THEN 1 ELSE IF lt(br[3]) THEN 2
     ELSE IF lt(br[4]) THEN 3 ELSE 4

\* breaks is the jobsBreaks state: null (modelled <<>>) until loadAll sets it.
jobsValueToClass(val, breaks) ==
  LET br == IF Len(breaks) = 4 THEN breaks ELSE DefaultBreaks
  IN IF LessThanBreak(val, br[1]) THEN 0
     ELSE IF LessThanBreak(val, br[2]) THEN 1
     ELSE IF LessThanBreak(val, br[3]) THEN 2
     ELSE IF LessThanBreak(val, br[4]) THEN 3
     ELSE 4

CLASS_LABELS == <<"very low", "low", "medium", "high", "very high">>

(***************************************************************************)
(* Attribute values as they sit in a feature's properties                  *)
(***************************************************************************)
NumProp(n) == [kind |-> "num", n |-> n]
MissingProp == [kind |-> "missing", n |-> 0]
NaNProp == [kind |-> "nan", n |-> 0]
RawProps == {NumProp(n) : n \in 0..MaxVal} \cup {MissingProp, NaNProp}

\* parseFloat(f.properties?.[prop] ?? '0'): a missing property parses the
\* literal '0', a non-numeric one gives NaN.
parseFloatProp(raw) ==
  IF raw.kind = "num" THEN [finite |-> TRUE, n |-> raw.n]
  ELSE IF raw.kind = "missing" THEN [finite |-> TRUE, n |-> 0]
  ELSE [finite |-> FALSE, n |-> 0]

(***************************************************************************)
(* Geometry kernel of the overlay                                          *)
(***************************************************************************)
\* toCleanPolygonParts: flatten to parts, drop the parts of area 0
toCleanPolygonParts(geom) == SelectSeq(geom, LAMBDA p : Cardinality(p) > 0)

\* Cell c has area c, so that parts of different sizes exist on few cells.
RECURSIVE planarArea(_)
planarArea(part) ==
  IF part = {} THEN 0
  ELSE LET c == CHOOSE x \in part : TRUE IN c + planarArea(part \ {c})

\* The double loop over (precinct part, zone part): the bbox test and
\* booleanIntersects only skip pairs with no common cell; turf.intersect
\* throws on the zone parts in faulty, which is caught and leaves the pair
\* out; the area of each intersection is added when it is > 0.
AccumArea(pParts, dParts, faulty) ==
  SumSeq([pi \in 1..Len(pParts) |->
    SumSeq([di \in 1..Len(dParts) |->
      LET inter == pParts[pi] \cap dParts[di]
          aPart == planarArea(inter)
      IN IF inter = {} THEN 0
         ELSE IF dParts[di] \in faulty THEN 0
         ELSE IF aPart > 0 THEN aPart ELSE 0])])

(***************************************************************************)
(* OverlayResult (the "stats" shape) and the two paths that build it       *)
(***************************************************************************)
ClassIdx == 0..4

\* areaByClass / countByClass, indexed 1..5 for class 0..4
AreaByClass(intersections) ==
  [k \in 1..5 |-> SumSeq([i \in 1..Len(intersections) |->
      IF intersections[i].classIndex = k - 1 THEN intersections[i].area ELSE 0])]

CountByClass(intersections) ==
  [k \in 1..5 |-> SumSeq([i \in 1..Len(intersections) |->
      IF intersections[i].classIndex = k - 1 THEN 1 ELSE 0])]

\* (variant: the classes of share 0 are kept)
ClassesOf_Unfiltered(areaByClass, countByClass, precinctArea) ==
  LET all == [k \in 1..5 |->
                [index |-> k - 1, label |-> CLASS_LABELS[k],
                 areaShare |-> IF precinctArea > 0
                               THEN Frac(areaByClass[k], precinctArea)
                               ELSE Frac(0, 1),
                 count |-> countByClass[k]]]
  IN SortDescBy(all, [i \in 1..5 |-> all[i].areaShare])

\* (variant: of two classes of equal share the higher one comes first)
ClassesOf_HigherFirst(areaByClass, countByClass, precinctArea) ==
  LET all == [k \in 1..5 |->
                [index |-> 5 - k, label |-> CLASS_LABELS[6 - k],
                 areaShare |-> IF precinctArea > 0
                               THEN Frac(areaByClass[6 - k], precinctArea)
                               ELSE Frac(0, 1),
                 count |-> countByClass[6 - k]]]
      kept == SelectSeq(all, LAMBDA c : FracPos(c.areaShare))
  IN SortDescBy(kept, [i \in 1..Len(kept) |-> kept[i].areaShare])

\* CLASS_LABELS.map(...).filter(c => c.areaShare > 0).sort(desc by areaShare);
\* precinctArea > 0 ? areaByClass / precinctArea : 0
ClassesOf(areaByClass, countByClass, precinctArea) ==
  LET all == [k \in 1..5 |->
                [index |-> k - 1, label |-> CLASS_LABELS[k],
                 areaShare |-> IF precinctArea > 0
                               THEN Frac(areaByClass[k], precinctArea)
                               ELSE Frac(0, 1),
                 count |-> countByClass[k]]]
      kept == SelectSeq(all, LAMBDA c : FracPos(c.areaShare))
  IN SortDescBy(kept, [i \in 1..Len(kept) |-> kept[i].areaShare])

\* (variant: the list is left in collection order)
SortIntersections_Unsorted(intersections) == intersections

SortIntersections(intersections) ==
  SortDescBy(intersections, [i \in 1..Len(intersections) |-> intersections[i].areaPct])

MakeStats(precinctName, year, precinctArea, dznIntersectCount, intersections) ==
  LET areaByClass == AreaByClass(intersections)
      countByClass == CountByClass(intersections)
      classes == ClassesOf(areaByClass, countByClass, precinctArea)
  IN [precinct |-> precinctName, year |-> year, precinctArea |-> precinctArea,
      dznIntersectCount |-> dznIntersectCount,
      intersections |-> SortIntersections(intersections),
      classes |-> classes,
      presentClasses |-> [i \in 1..Len(classes) |-> classes[i].label],
      totals |-> [areaByClass |-> areaByClass, countByClass |-> countByClass,
                  precinctArea |-> precinctArea]]

NoStats == MakeStats("", 0, 0, 0, <<>>)

\* ---- client path, lines 2065-2158 ----
\* One iteration of the zone loop: the record pushed for feature f, or skip.
ZoneSkipped(accumArea) == accumArea <= 0

ZoneValue(raw) ==
  LET val == parseFloatProp(raw) IN IF val.finite THEN val.n ELSE 0

\* The parts of zone f on which turf.intersect throws (none unless the
\* feature says so)
FaultyParts(f) == IF "throws" \in DOMAIN f THEN f.throws ELSE {}

ZoneAccumArea(f, precinctParts) ==
  LET dznParts == toCleanPolygonParts(f.geometry)
  IN IF dznParts = <<>> THEN 0 ELSE AccumArea(precinctParts, dznParts, FaultyParts(f))

ZoneRecord(f, accumArea, precinctArea, breaks) ==
  LET cls == jobsValueToClass(ZoneValue(f.raw), breaks)
  IN [code |-> f.code, value |-> ZoneValue(f.raw), classIndex |-> cls,
      classLabel |-> CLASS_LABELS[cls + 1], area |-> accumArea,
      areaPct |-> Frac(accumArea, precinctArea)]

ClientIntersections(features, precinctParts, precinctArea, breaks) ==
  LET hit == SelectSeq(features,
               LAMBDA f : ~ZoneSkipped(ZoneAccumArea(f, precinctParts)))
  IN [i \in 1..Len(hit) |->
        ZoneRecord(hit[i], ZoneAccumArea(hit[i], precinctParts), precinctArea, breaks)]

PrecinctArea(precinctParts) ==
  SumSeq([i \in 1..Len(precinctParts) |-> planarArea(precinctParts[i])])

FindPrecinct(precincts, precinctName) ==
  SelectSeq(precincts, LAMBDA f : f.name = precinctName)

Threw(msg) == [threw |-> TRUE, err |-> msg, stats |-> NoStats]
Returned(stats) == [threw |-> FALSE, err |-> "", stats |-> stats]

\* The synchronous tail of the client path once both collections are at hand.
ClientOverlay(precinctName, year, features, precincts, breaks) ==
  LET found == FindPrecinct(precincts, precinctName)
  IN IF found = <<>> THEN Threw("Precinct not found")
     ELSE LET precinctParts == toCleanPolygonParts(found[1].geometry)
              precinctArea == PrecinctArea(precinctParts)
          IN IF precinctParts = <<>> THEN Threw("Precinct geometry invalid after cleaning")
             ELSE IF precinctArea = 0 THEN Threw("Zero precinct area")
             ELSE LET intersections ==
                        ClientIntersections(features, precinctParts, precinctArea, breaks)
                  IN Returned(MakeStats(precinctName, year, precinctArea,
                                        Len(intersections), intersections))

\* ---- server path, lines 1918-1950 ----
\* A JSON body: each top-level field may be absent; intersections may be
\* something that is not an array.
ServerAccepts(res) == res.hasCount

\* (variant: the service's zones classified with the default thresholds)
ServerRecord_DefaultBreaks(i, precinctArea, breaks) ==
  LET cls == jobsValueToClass(i.value, <<>>)
  IN [code |-> i.code, value |-> i.value, classIndex |-> cls,
      classLabel |-> CLASS_LABELS[cls + 1], area |-> i.area,
      areaPct |-> IF precinctArea > 0 THEN Frac(i.area, precinctArea) ELSE Frac(0, 1)]

ServerRecord(i, precinctArea, breaks) ==
  LET cls == jobsValueToClass(i.value, breaks)
  IN [code |-> i.code, value |-> i.value, classIndex |-> cls,
      classLabel |-> CLASS_LABELS[cls + 1], area |-> i.area,
      areaPct |-> IF precinctArea > 0 THEN Frac(i.area, precinctArea) ELSE Frac(0, 1)]

ServerCount(res, intersections) ==
  IF res.dznIntersectCount # 0 THEN res.dznIntersectCount ELSE Len(intersections)

\* [used |-> FALSE] when the body is rejected or mapping it throws (caught).
ServerOverlay(res, precinctName, year, breaks) ==
  IF ~ServerAccepts(res) THEN [used |-> FALSE, stats |-> NoStats]
  ELSE IF res.interKind = "notarray" THEN [used |-> FALSE, stats |-> NoStats]
  ELSE LET precinctArea == IF res.hasArea THEN res.precinctArea ELSE 0
           list == IF res.interKind = "missing" THEN <<>> ELSE res.intersections
           intersections == [k \in 1..Len(list) |-> ServerRecord(list[k], precinctArea, breaks)]
       IN [used |-> TRUE,
           stats |-> MakeStats(precinctName, year, precinctArea,
                               ServerCount(res, intersections), intersections)]

(***************************************************************************)
(* Deterministic narrative, lines 2162-2213                                *)
(***************************************************************************)
indicatorName == "Number of jobs"

\* The 'Spatial scale' string of the indicator metadata is only tested by
\* two regular expressions; metaScale says which of them it matches.
MetaScales == {"DZN", "Destination Zone", "other"}
SpatialScale(metaScale) ==
  IF metaScale = "DZN" THEN "DZN"
  ELSE IF metaScale = "Destination Zone" THEN "Destination Zone (DZN)"
  ELSE "DZN"

\* n.toFixed(1) of n = x*100: the nearest tenth, the larger one on a tie
Tenths(x) == (2 * 1000 * x.num + x.den) \div (2 * x.den)
toFixed1(x) == ToString(Tenths(x) \div 10) \o "." \o ToString(Tenths(x) % 10)
\* Math.round(n)
MathRound100(x) == (2 * 100 * x.num + x.den) \div (2 * x.den)

\* (variant: the integer is cut off, not rounded)
fmtPct_Floor(x) ==
  IF Tenths(x) % 10 = 0 THEN ToString((100 * x.num) \div x.den) ELSE toFixed1(x)

fmtPct(x) ==
  IF Tenths(x) % 10 = 0 THEN ToString(MathRound100(x)) ELSE toFixed1(x)

RECURSIVE JoinComma(_)
JoinComma(arr) ==
  IF Len(arr) = 1 THEN arr[1] ELSE arr[1] \o ", " \o JoinComma(Tail(arr))

joinList(arr) ==
  IF Len(arr) = 0 THEN ""
  ELSE IF Len(arr) = 1 THEN arr[1]
  ELSE IF Len(arr) = 2 THEN arr[1] \o " and " \o arr[2]
  ELSE JoinComma(SubSeq(arr, 1, Len(arr) - 1)) \o ", and " \o arr[Len(arr)]

Bold(str) == "**" \o str \o "**"

\* (variant: a single class is taken for no data)
NarrativeHasData_Several(stats) == Len(stats.classes) > 1

NarrativeHasData(stats) == Len(stats.classes) > 0

NoDataNarrative(precinct, spatialScale, year) ==
  "The " \o Bold(precinct) \o " precinct intersects with " \o Bold("0") \o " "
  \o Bold(spatialScale) \o " areas based on the " \o Bold(ToString(year))
  \o " dataset. Within the precinct, the " \o Bold(indicatorName)
  \o " classes include none. Therefore, the " \o Bold(precinct)
  \o " precinct is dominantly characterized by a very low level of "
  \o Bold(indicatorName) \o "."

\* the locals of the data branch
NarrativePresentLabels(classes) == [i \in 1..Len(classes) |-> Bold(classes[i].label)]
\* (variant: the last class taken as the dominant one)
NarrativeDominant_Last(classes) == classes[Len(classes)]
NarrativeDominant(classes) == classes[1]
NarrativeOthers(classes) == Tail(classes)

\* (variant: the noun never takes the plural)
NarrativeS1_Singular(stats, spatialScale) ==
  "The " \o Bold(stats.precinct) \o " precinct intersects with "
  \o Bold(ToString(stats.dznIntersectCount)) \o " " \o Bold(spatialScale) \o " area"
  \o " based on the " \o Bold(ToString(stats.year)) \o " dataset."

NarrativeS1(stats, spatialScale) ==
  "The " \o Bold(stats.precinct) \o " precinct intersects with "
  \o Bold(ToString(stats.dznIntersectCount)) \o " " \o Bold(spatialScale) \o " area"
  \o (IF stats.dznIntersectCount = 1 THEN "" ELSE "s")
  \o " based on the " \o Bold(ToString(stats.year)) \o " dataset."

NarrativeS2(classes) ==
  "Within the precinct, the " \o Bold(indicatorName) \o " classes include "
  \o joinList(NarrativePresentLabels(classes)) \o "."

NarrativeS3(classes) ==
  "The " \o Bold(NarrativeDominant(classes).label) \o " class covers "
  \o Bold(fmtPct(NarrativeDominant(classes).areaShare) \o "%") \o " of the precinct area."

NarrativeS4(classes) ==
  LET others == NarrativeOthers(classes)
      otherLabels == [i \in 1..Len(others) |-> Bold(others[i].label)]
      otherPcts == [i \in 1..Len(others) |-> Bold(fmtPct(others[i].areaShare) \o "%")]
  IN IF Len(others) > 0
     THEN " In contrast, " \o joinList(otherLabels) \o " account for "
          \o joinList(otherPcts) \o ", respectively."
     ELSE ""

NarrativeS5(stats) ==
  " Therefore, the " \o Bold(stats.precinct) \o " precinct is dominantly characterized by a "
  \o Bold(NarrativeDominant(stats.classes).label) \o " level of " \o Bold(indicatorName) \o "."

generatePrecinctNarrativeDeterministic(stats, metaScale) ==
  IF ~NarrativeHasData(stats)
  THEN NoDataNarrative(stats.precinct, SpatialScale(metaScale), stats.year)
  ELSE NarrativeS1(stats, SpatialScale(metaScale)) \o " " \o NarrativeS2(stats.classes)
       \o " " \o NarrativeS3(stats.classes) \o NarrativeS4(stats.classes) \o NarrativeS5(stats)

(***************************************************************************)
(* Environment: the static files behind the fetches and the metadata       *)
(***************************************************************************)
Years == {2011, 2016, 2021}
\* the years a year chip can select: availableYears comes from the metadata
\* text and may hold a year with no zone collection
YearChoices == Years \cup {2006}
\* three of the five names
PRECINCT_NAMES == {"Montague", "Lorimer", "Sandridge"}

\* yrToUrl[year] || yrToUrl[2021]: the collection an uncached year is read from
FileYear(year) == IF year \in Years THEN year ELSE 2021

ZoneCode(i) == "Z" \o ToString(i)

Cover(geom) == UNION {geom[i] : i \in 1..Len(geom)}
PartsDisjoint(geom) ==
  \A i, j \in 1..Len(geom) : i # j => geom[i] \cap geom[j] = {}

\* Geometries: one part (possibly degenerate) or two non-overlapping parts
MinOf(S) == CHOOSE m \in S : \A x \in S : m <= x
Geoms ==
  {<<a>> : a \in SUBSET Cells}
  \cup {g \in {<<a, b>> : a, b \in (SUBSET Cells) \ {{}}} :
          PartsDisjoint(g) /\ MinOf(g[1]) < MinOf(g[2])}

\* Zone collections of one year: codes by position, zones do not overlap
ZoneFeature(i, raw, geom) == [code |-> ZoneCode(i), raw |-> raw, geometry |-> geom]
ZonesDisjoint(fc) ==
  \A i, j \in 1..Len(fc) : i # j => Cover(fc[i].geometry) \cap Cover(fc[j].geometry) = {}

ZoneCollectionsOfLen(n) ==
  {fc \in [1..n -> RawProps \X Geoms] :
      \A i, j \in 1..n : i # j => Cover(fc[i][2]) \cap Cover(fc[j][2]) = {}}

ZoneCollections ==
  UNION {{[i \in 1..n |-> ZoneFeature(i, fc[i][1], fc[i][2])] : fc \in ZoneCollectionsOfLen(n)}
         : n \in 0..MaxZones}

PrecinctFeature(name, geom) == [name |-> name, geometry |-> geom]

(***************************************************************************)
(* The remote overlay service, POST /api/precinct_overlay.  Its code is    *)
(* not part of the sources; a well-formed answer is modelled from the      *)
(* specification (sections 4.2, 6, 7): the zones of positive intersection  *)
(* area in collection order, missing values as 0, and an empty result for  *)
(* an unknown precinct, an unknown year or a precinct of zero area.        *)
(***************************************************************************)
Body(hasCount, cnt, hasArea, area, interKind, inters) ==
  [hasCount |-> hasCount, dznIntersectCount |-> cnt, hasArea |-> hasArea,
   precinctArea |-> area, interKind |-> interKind, intersections |-> inters]

EmptyBody == Body(TRUE, 0, TRUE, 0, "array", <<>>)

ServiceBody(precinctName, year, precincts, jobs) ==
  LET found == SelectSeq(precincts, LAMBDA f : f.name = precinctName)
      pCells == Cover(found[1].geometry)
      fc == jobs[year]
      hit == SelectSeq(fc, LAMBDA f : planarArea(pCells \cap Cover(f.geometry)) > 0)
      inters == [i \in 1..Len(hit) |->
                   [code |-> hit[i].code,
                    value |-> IF hit[i].raw.kind = "num" THEN hit[i].raw.n ELSE 0,
                    area |-> planarArea(pCells \cap Cover(hit[i].geometry))]]
  IN IF found = <<>> \/ year \notin Years THEN EmptyBody
     ELSE IF planarArea(pCells) = 0 THEN EmptyBody
     ELSE Body(TRUE, Len(inters), TRUE, planarArea(pCells), "array", inters)

\* What the fetch of the service can bring back: a network error, a non-OK
\* status, a body that is not JSON, the well-formed body w, or w with some of
\* its fields absent or with intersections not an array.
NoJson == Body(FALSE, 0, FALSE, 0, "missing", <<>>)
Resp(kind, body) == [kind |-> kind, body |-> body]

MalformedBodies(w) ==
  { Body(FALSE, 0, w.hasArea, w.precinctArea, w.interKind, w.intersections),
    Body(TRUE, w.dznIntersectCount, FALSE, 0, w.interKind, w.intersections),
    Body(TRUE, w.dznIntersectCount, w.hasArea, w.precinctArea, "missing", <<>>),
    Body(TRUE, w.dznIntersectCount, FALSE, 0, "missing", <<>>),
    Body(TRUE, w.dznIntersectCount, w.hasArea, w.precinctArea, "notarray", <<>>) }

WellFormedOrNone(w) ==
  {Resp("neterr", NoJson), Resp("notok", NoJson), Resp("badjson", NoJson), Resp("json", w)}
Responses(w) == WellFormedOrNone(w) \cup {Resp("json", b) : b \in MalformedBodies(w)}

(***************************************************************************)
(* computePrecinctJobsOverlay as one function of its arguments, the state  *)
(* it reads (breaks, jobsGeoByYear) and what its fetches bring back        *)
(***************************************************************************)
GeoEntry(present, features) == [present |-> present, features |-> features]
NotLoaded == [y \in Years |-> GeoEntry(FALSE, <<>>)]

CachedJobs(geo, year) == IF year \in Years THEN geo[year] ELSE GeoEntry(FALSE, <<>>)

FetchFails == {"none", "jobs", "precincts"}

OverlayOutcome(precinctName, year, breaks, geo, resp, fetchFail, precincts, jobs) ==
  LET sv == IF resp.kind = "json"
            THEN ServerOverlay(resp.body, precinctName, year, breaks)
            ELSE [used |-> FALSE, stats |-> NoStats]
      cached == CachedJobs(geo, year)
      jobsFC == IF cached.present THEN cached.features ELSE jobs[FileYear(year)]
  IN IF sv.used THEN [path |-> "server", res |-> Returned(sv.stats)]
     ELSE IF ~cached.present /\ fetchFail = "jobs"
       THEN [path |-> "client", res |-> Threw("Failed to fetch jobs")]
     ELSE IF fetchFail = "precincts"
       THEN [path |-> "client", res |-> Threw("Failed to fetch precincts")]
     ELSE [path |-> "client",
           res |-> ClientOverlay(precinctName, year, jobsFC, precincts, breaks)]

(***************************************************************************)
(* loadAll, lines 1111-1183: the dynamic equal-interval breaks             *)
(***************************************************************************)
MaxOf(S) == IF S = {} THEN 0 ELSE CHOOSE m \in S : \A x \in S : x <= m

FiniteValues(fc) ==
  {parseFloatProp(fc[i].raw).n : i \in {j \in 1..Len(fc) : parseFloatProp(fc[j].raw).finite}}

\* (variant: only the 2021 collection is scanned)
GlobalMax_LastYear(obj) == MaxOf({0} \cup FiniteValues(obj[2021]))

GlobalMax(obj) == MaxOf({0} \cup UNION {FiniteValues(obj[y]) : y \in Years})

DynamicBreaks(maxV) == [k \in 1..4 |-> Frac(k * maxV, 5)]

(***************************************************************************)
(* Point lookup and centroid, lines 1040-1106 and 1221-1239.  Here a       *)
(* geometry carries coordinates: a ring is a sequence of points <<x, y>>   *)
(* on an integer grid, a Polygon a sequence of rings, a MultiPolygon a     *)
(* sequence of such sequences; the arithmetic is exact.                    *)
(***************************************************************************)
MaxCoord == 4

Geom(type, coordinates) == [type |-> type, coordinates |-> coordinates]
NullGeom == Geom("null", <<>>)

\* One turn of the loop of pointInRing: the edge from ring[j] to ring[i].
\* x < (xj - xi) * (y - yi) / (yj - yi) + xi, multiplied through by yj - yi,
\* which is not 0 when the first conjunct holds.
EdgeIntersect(pt, pi, pj) ==
  LET x == pt[1]
      y == pt[2]
      xi == pi[1]
      yi == pi[2]
      xj == pj[1]
      yj == pj[2]
      d == yj - yi
  IN /\ (yi > y) # (yj > y)
     /\ IF d > 0 THEN (x - xi) * d < (xj - xi) * (y - yi)
                 ELSE (x - xi) * d > (xj - xi) * (y - yi)

\* The loop from index i on, j being the index before i (the last at first)
RECURSIVE RingScan(_, _, _, _)
RingScan(pt, ring, i, inside) ==
  IF i > Len(ring) THEN inside
  ELSE LET j == IF i = 1 THEN Len(ring) ELSE i - 1
       IN RingScan(pt, ring, i + 1,
                   IF EdgeIntersect(pt, ring[i], ring[j]) THEN ~inside ELSE inside)

pointInRing(pt, ring) == RingScan(pt, ring, 1, FALSE)

\* A Polygon or a part of a MultiPolygon: in the outer ring, in no hole
InRings(pt, rings) ==
  /\ pointInRing(pt, rings[1])
  /\ ~\E h \in 2..Len(rings) : pointInRing(pt, rings[h])

\* (variant: the holes are not looked at)
pointInPolygonGeom_NoHoles(pt, geom) ==
  IF geom.type = "Polygon" THEN pointInRing(pt, geom.coordinates[1])
  ELSE IF geom.type = "MultiPolygon"
    THEN \E p \in 1..Len(geom.coordinates) : pointInRing(pt, geom.coordinates[p][1])
  ELSE FALSE

\* Every Polygon and every part given to it has an outer ring.
pointInPolygonGeom(pt, geom) ==
  IF geom.type = "null" THEN FALSE
  ELSE IF geom.type = "Polygon" THEN InRings(pt, geom.coordinates)
  ELSE IF geom.type = "MultiPolygon"
    THEN \E p \in 1..Len(geom.coordinates) : InRings(pt, geom.coordinates[p])
  ELSE FALSE

\* Centroid utilities, lines 1072-1106.  A result is null, undefined, a
\* point with exact coordinates, or a TypeError.
NullResult == [kind |-> "null"]
UndefinedResult == [kind |-> "undefined"]
ThrowsResult == [kind |-> "throws"]
PointResult(x, y) == [kind |-> "point", x |-> x, y |-> y]

\* ring[j] of the loops over the edges: the point before ring[i], the last
\* one at first
PrevPoint(ring, i) == ring[IF i = 1 THEN Len(ring) ELSE i - 1]

ringArea(ring) ==
  Frac(SumSeq([i \in 1..Len(ring) |->
                 PrevPoint(ring, i)[1] * ring[i][2] - ring[i][1] * PrevPoint(ring, i)[2]]), 2)

Abs(n) == IF n < 0 THEN 0 - n ELSE n

\* f of one turn of the loop of ringCentroid
EdgeF(ring, i) ==
  ring[i][1] * PrevPoint(ring, i)[2] - PrevPoint(ring, i)[1] * ring[i][2]

\* cx / (6 * a) with a = sum / 2 is cx / (3 * sum)
ringCentroid(ring) ==
  LET cx == SumSeq([i \in 1..Len(ring) |-> (ring[i][1] + PrevPoint(ring, i)[1]) * EdgeF(ring, i)])
      cy == SumSeq([i \in 1..Len(ring) |-> (ring[i][2] + PrevPoint(ring, i)[2]) * EdgeF(ring, i)])
      a2 == SumSeq([i \in 1..Len(ring) |-> EdgeF(ring, i)])
  IN IF a2 = 0
     THEN (IF Len(ring) = 0 THEN UndefinedResult
           ELSE PointResult(Frac(ring[1][1], 1), Frac(ring[1][2], 1)))
     ELSE PointResult(Frac(cx, 3 * a2), Frac(cy, 3 * a2))

\* The loop of geomCentroid from part i on: best is the outer ring kept so
\* far (has is FALSE while best is null and bestA is -Infinity)
RECURSIVE BestRing(_, _, _, _)
BestRing(polys, i, has, best) ==
  IF i > Len(polys) THEN [has |-> has, ring |-> best]
  ELSE LET a == Abs(ringArea(polys[i][1]).num)
       IN IF ~has \/ a > Abs(ringArea(best).num)
          THEN BestRing(polys, i + 1, TRUE, polys[i][1])
          ELSE BestRing(polys, i + 1, has, best)

\* coordinates[0] of a Polygon without rings is undefined, and so is poly[0]
\* of a part without rings: reading its length throws.
geomCentroid(geom) ==
  IF geom.type = "null" THEN NullResult
  ELSE IF geom.type = "Polygon"
    THEN (IF Len(geom.coordinates) = 0 THEN ThrowsResult
          ELSE ringCentroid(geom.coordinates[1]))
  ELSE IF geom.type = "MultiPolygon"
    THEN (IF \E p \in 1..Len(geom.coordinates) : Len(geom.coordinates[p]) = 0
          THEN ThrowsResult
          ELSE LET b == BestRing(geom.coordinates, 1, FALSE, <<>>)
               IN IF b.has THEN ringCentroid(b.ring) ELSE NullResult)
  ELSE NullResult

\* (variant: the scan goes on to the last zone that contains the point)
RECURSIVE ScanFeatures_Last(_, _, _)
ScanFeatures_Last(pt, fc, i) ==
  IF i > Len(fc) THEN 0
  ELSE LET rest == ScanFeatures_Last(pt, fc, i + 1)
           val == parseFloatProp(fc[i].raw)
       IN IF \E k \in (i + 1)..Len(fc) : pointInPolygonGeom(pt, fc[k].geometry) THEN rest
          ELSE IF pointInPolygonGeom(pt, fc[i].geometry)
            THEN (IF val.finite THEN val.n ELSE 0)
          ELSE 0

\* The loop over fc.features from index i on: the first zone that contains
\* the point gives the value and ends the loop.
RECURSIVE ScanFeatures(_, _, _)
ScanFeatures(pt, fc, i) ==
  IF i > Len(fc) THEN 0
  ELSE IF pointInPolygonGeom(pt, fc[i].geometry)
    THEN LET val == parseFloatProp(fc[i].raw) IN IF val.finite THEN val.n ELSE 0
  ELSE ScanFeatures(pt, fc, i + 1)

computeJobsForPoint(lng, lat, geo) ==
  [yr \in Years |-> IF ~geo[yr].present THEN 0
                    ELSE ScanFeatures(<<lng, lat>>, geo[yr].features, 1)]

\* Rings on the grid: the corners are even, the rings are closed
EvenCoords == {c \in 0..MaxCoord : c % 2 = 0}
Boxes == {b \in EvenCoords \X EvenCoords \X EvenCoords \X EvenCoords :
            b[1] < b[3] /\ b[2] < b[4]}
RectRing(b) ==
  <<<<b[1], b[2]>>, <<b[3], b[2]>>, <<b[3], b[4]>>, <<b[1], b[4]>>, <<b[1], b[2]>>>>
\* the rectangle without its corner k
TriRing(b, k) ==
  LET r == RectRing(b)
      c == SelectSeq([i \in 1..4 |-> i], LAMBDA i : i # k)
  IN <<r[c[1]], r[c[2]], r[c[3]], r[c[1]]>>
ReverseRing(r) == [i \in 1..Len(r) |-> r[Len(r) + 1 - i]]

(***************************************************************************)
(* State                                                                   *)
(***************************************************************************)
VARIABLES
  precinctsFile,         \* /data/fb-precincts-official-boundary.geojson
  jobsFiles,             \* /data/Number_of_Jobs_DZN_<yy>.geojson, by year
  metaScale,             \* indicatorMetadata['Number of jobs']['Spatial scale']
  jobsGeoByYear,         \* jobsGeoByYear.current
  jobsBreaks,            \* useState(null): <<>> or four thresholds
  loadState,             \* loadAll: "pending", "done", "failed"
  panelFocus,            \* [type, name]; type "none" for null
  selectedYear,
  dynamicDescription,
  isDescriptionLoading,
  descriptionCache,      \* descriptionCache.current; "" for an absent key
  calls,                 \* the asynchronous runs started by the effects
  ov,                    \* one computePrecinctJobsOverlay call taken as a whole
  cl,                    \* one jobsValueToClass application
  jp,                    \* one computeJobsForPoint call
  pip,                   \* one pointInPolygonGeom application
  gc,                    \* one geomCentroid application
  fp,                    \* one fmtPct application
  site,                  \* REACT_APP_API_URL and window.location of the upload page
  selectedScale,         \* useState(null); "" for null
  lastCsvFile,           \* lastCsvFileRef.current; "" for null
  uploading,
  uploadedGeojson,
  uploads,               \* the runs of handleFileChange and reprocessLastCsv
  featureState,          \* per source, the feature ids whose hover state is true
  hoverStateBySource,    \* useRef({}); Undefined for a missing or undefined entry
  hoveredDZNCode

envVars == <<precinctsFile, jobsFiles, metaScale>>
loadVars == <<jobsGeoByYear, jobsBreaks, loadState>>
geoVars == <<jp, pip, gc>>
uploadVars == <<site, selectedScale, lastCsvFile, uploading, uploadedGeojson, uploads>>
hoverVars == <<featureState, hoverStateBySource, hoveredDZNCode>>
uiVars == <<fp, uploadVars, hoverVars>>
panelVars == <<panelFocus, selectedYear, dynamicDescription, isDescriptionLoading,
               descriptionCache, calls>>
vars == <<precinctsFile, jobsFiles, metaScale, jobsGeoByYear, jobsBreaks, loadState,
          panelFocus, selectedYear, dynamicDescription, isDescriptionLoading,
          descriptionCache, calls, ov, cl, jp, pip, gc, fp,
          site, selectedScale, lastCsvFile, uploading, uploadedGeojson, uploads,
          featureState, hoverStateBySource, hoveredDZNCode>>

Focus(type, name) == [type |-> type, name |-> name]

PrecinctKey(name, year) == "precinct_" \o name \o "_" \o ToString(year)
IndicatorKey(name) == "indicator_" \o name
CacheKeys ==
  {PrecinctKey(n, y) : n \in PRECINCT_NAMES, y \in YearChoices} \cup {IndicatorKey(indicatorName)}

NoResp == Resp("none", NoJson)

\* A run of generateDescription (eff "desc") or of the year-change effect
\* (eff "year"); breaks is the jobsBreaks its closure captured.
NewCall(eff, type, name, year, key, breaks, pc) ==
  [eff |-> eff, type |-> type, name |-> name, yr |-> year, cacheKey |-> key,
   br |-> breaks, pc |-> pc, canceled |-> FALSE, features |-> <<>>,
   path |-> "none", res |-> Threw("")]

NoOv == [ran |-> FALSE, name |-> "", yr |-> 0, br |-> <<>>, resp |-> NoResp,
         fetchFail |-> "none", path |-> "none", res |-> Threw(""), text |-> ""]
NoCl == [ran |-> FALSE, val |-> 0, br |-> <<>>, out |-> 0]
NoJp == [ran |-> FALSE, pt |-> <<0, 0>>, geo |-> NotLoaded, out |-> [yr \in Years |-> 0]]
NoPip == [ran |-> FALSE, pt |-> <<0, 0>>, geom |-> NullGeom, out |-> FALSE]
NoGc == [ran |-> FALSE, geom |-> NullGeom, out |-> NullResult]
InitGeo == jp = NoJp /\ pip = NoPip /\ gc = NoGc
NoFp == [ran |-> FALSE, x |-> Frac(0, 1), out |-> ""]
NoGeojson == [req |-> 0, file |-> "", scale |-> ""]
NoSite == [base |-> "", proto |-> "http:", host |-> "localhost"]
InitUploadState ==
  /\ selectedScale = ""
  /\ lastCsvFile = ""
  /\ uploading = FALSE
  /\ uploadedGeojson = NoGeojson
  /\ uploads = <<>>
\* The layers with hover handlers and their sources (one layer per source)
HoverLayers == {"number-of-jobs-2011-layer", "number-of-jobs-2016-layer", "uploaded-geojson-fill"}
LayerSource(layer) ==
  IF layer = "number-of-jobs-2011-layer" THEN "jobs-dzn-2011-data-source"
  ELSE IF layer = "number-of-jobs-2016-layer" THEN "jobs-dzn-2016-data-source"
  ELSE "uploaded-geojson-source"
HoverSources == {LayerSource(layer) : layer \in HoverLayers}
Undefined == -1
InitHover ==
  /\ featureState = [src \in HoverSources |-> {}]
  /\ hoverStateBySource = [src \in HoverSources |-> Undefined]
  /\ hoveredDZNCode = ""
InitUi == fp = NoFp /\ site = NoSite /\ InitUploadState /\ InitHover

LLMText(name) == "LLM description of " \o name
QuotaMessage ==
  "Daily free API quota exceeded. Please try again tomorrow or upgrade to a paid plan."
ErrorMessage(msg) == "An error occurred while generating the description: " \o msg

\* State right after mount: the mount effects select 'Number of jobs' and
\* 2011, generateDescription has asked the LLM, loadAll is fetching.
InitPanel ==
  /\ jobsGeoByYear = NotLoaded
  /\ jobsBreaks = <<>>
  /\ loadState = "pending"
  /\ panelFocus = Focus("indicator", indicatorName)
  /\ selectedYear = 2011
  /\ dynamicDescription = ""
  /\ isDescriptionLoading = TRUE
  /\ descriptionCache = [k \in CacheKeys |-> ""]
  /\ calls = <<NewCall("desc", "indicator", indicatorName, 2011,
                       IndicatorKey(indicatorName), <<>>, "llm")>>

(***************************************************************************)
(* loadAll completes: all three collections or nothing                     *)
(***************************************************************************)
LoadAllDone(ok) ==
  /\ loadState = "pending"
  /\ IF ok
     THEN /\ jobsGeoByYear' = [y \in Years |-> GeoEntry(TRUE, jobsFiles[y])]
          /\ jobsBreaks' = DynamicBreaks(GlobalMax(jobsFiles))
          /\ loadState' = "done"
     ELSE /\ loadState' = "failed"
          /\ UNCHANGED <<jobsGeoByYear, jobsBreaks>>
  /\ UNCHANGED <<uiVars, envVars, panelVars, ov, cl, geoVars>>

(***************************************************************************)
(* Panel events and the two narrative effects, lines 1731-1827             *)
(***************************************************************************)
CancelYearRuns(cs) ==
  [i \in 1..Len(cs) |-> IF cs[i].eff = "year" THEN [cs[i] EXCEPT !.canceled = TRUE] ELSE cs[i]]

\* setPanelFocus({type: 'precinct', name}): both effects run
FocusPrecinct(name) ==
  /\ Len(calls) + (IF descriptionCache[PrecinctKey(name, selectedYear)] # "" THEN 1 ELSE 2)
       <= MaxCalls
  /\ LET key == PrecinctKey(name, selectedYear)
         hit == descriptionCache[key] # ""
         descRun == NewCall("desc", "precinct", name, selectedYear, key, jobsBreaks, "server")
         yearRun == NewCall("year", "precinct", name, selectedYear, key, jobsBreaks, "server")
     IN /\ panelFocus' = Focus("precinct", name)
        /\ dynamicDescription' = IF hit THEN descriptionCache[key] ELSE ""
        /\ isDescriptionLoading' = ~hit
        /\ calls' = CancelYearRuns(calls) \o (IF hit THEN <<>> ELSE <<descRun>>) \o <<yearRun>>
  /\ UNCHANGED <<uiVars, envVars, loadVars, selectedYear, descriptionCache, ov, cl, geoVars>>

\* setSelectedYear(y) from a year chip: only the year-change effect runs
YearChange(y) ==
  /\ y # selectedYear
  /\ panelFocus.type = "precinct" => Len(calls) + 1 <= MaxCalls
  /\ selectedYear' = y
  /\ calls' = IF panelFocus.type = "precinct"
              THEN CancelYearRuns(calls)
                   \o <<NewCall("year", "precinct", panelFocus.name, y,
                                PrecinctKey(panelFocus.name, y), jobsBreaks, "server")>>
              ELSE CancelYearRuns(calls)
  /\ UNCHANGED <<uiVars, envVars, loadVars, panelFocus, dynamicDescription, isDescriptionLoading,
                 descriptionCache, ov, cl, geoVars>>

\* A click on a zone of a visible jobs layer (lines 1510-1536):
\* setPanelFocus({type: 'indicator', ...}) and setSelectedYear(yr); the
\* generateDescription effect runs, the year-change effect is cleaned up
ZoneClick(yr) ==
  /\ LET key == IndicatorKey(indicatorName)
         hit == descriptionCache[key] # ""
     IN /\ ~hit => Len(calls) + 1 <= MaxCalls
        /\ panelFocus' = Focus("indicator", indicatorName)
        /\ selectedYear' = yr
        /\ dynamicDescription' = IF hit THEN descriptionCache[key] ELSE ""
        /\ isDescriptionLoading' = ~hit
        /\ calls' = CancelYearRuns(calls)
                    \o (IF hit THEN <<>>
                        ELSE <<NewCall("desc", "indicator", indicatorName, yr, key, jobsBreaks, "llm")>>)
  /\ UNCHANGED <<uiVars, envVars, loadVars, descriptionCache, ov, cl, geoVars>>

\* The call of run i returns or throws (path, res) and the awaiting effect
\* goes on with it.
Complete(i, path, res) ==
  LET c == calls[i]
      text == generatePrecinctNarrativeDeterministic(res.stats, metaScale)
  IN /\ calls' = [calls EXCEPT ![i].pc = "done", ![i].path = path, ![i].res = res,
                               ![i].features = <<>>]
     /\ IF c.eff = "desc"
        THEN /\ isDescriptionLoading' = FALSE
             /\ IF res.threw
                THEN /\ dynamicDescription' = ""
                     /\ UNCHANGED descriptionCache
                ELSE /\ dynamicDescription' = text
                     /\ descriptionCache' = [descriptionCache EXCEPT ![c.cacheKey] = text]
        ELSE /\ dynamicDescription' = IF ~res.threw /\ ~c.canceled THEN text
                                      ELSE dynamicDescription
             /\ UNCHANGED <<isDescriptionLoading, descriptionCache>>

\* The fetch of the overlay service settles
ServerResponds(i) ==
  /\ i \in 1..Len(calls)
  /\ calls[i].pc = "server"
  /\ \E resp \in WellFormedOrNone(ServiceBody(calls[i].name, calls[i].yr, precinctsFile, jobsFiles)) :
       LET c == calls[i]
           sv == IF resp.kind = "json"
                 THEN ServerOverlay(resp.body, c.name, c.yr, c.br)
                 ELSE [used |-> FALSE, stats |-> NoStats]
           cached == CachedJobs(jobsGeoByYear, c.yr)
       IN IF sv.used
          THEN Complete(i, "server", Returned(sv.stats))
          ELSE /\ calls' = [calls EXCEPT
                                         ![i].pc = IF cached.present THEN "precincts" ELSE "jobs",
                                         ![i].features = cached.features]
               /\ UNCHANGED <<dynamicDescription, isDescriptionLoading, descriptionCache>>
  /\ UNCHANGED <<uiVars, envVars, loadVars, panelFocus, selectedYear, ov, cl, geoVars>>

\* The overlay service accepts the request and never answers: the fetch is
\* started without a signal and no timer races it, so the await never resumes.
ServerHangs(i) ==
  /\ i \in 1..Len(calls)
  /\ calls[i].pc = "server"
  /\ calls' = [calls EXCEPT ![i].pc = "hung"]
  /\ UNCHANGED <<uiVars, envVars, loadVars, panelFocus, selectedYear, dynamicDescription,
                 isDescriptionLoading, descriptionCache, ov, cl, geoVars>>

\* The fetch of the year's zone collection settles (only when not cached)
JobsFetched(i, ok) ==
  /\ i \in 1..Len(calls)
  /\ calls[i].pc = "jobs"
  /\ IF ok
     THEN /\ calls' = [calls EXCEPT ![i].pc = "precincts",
                                    ![i].features = jobsFiles[FileYear(calls[i].yr)]]
          /\ UNCHANGED <<dynamicDescription, isDescriptionLoading, descriptionCache>>
     ELSE Complete(i, "client", Threw("Failed to fetch jobs"))
  /\ UNCHANGED <<uiVars, envVars, loadVars, panelFocus, selectedYear, ov, cl, geoVars>>

\* The fetch of the precinct collection settles; the overlay is computed
PrecinctsFetched(i, ok) ==
  /\ i \in 1..Len(calls)
  /\ calls[i].pc = "precincts"
  /\ LET c == calls[i]
     IN IF ok
        THEN Complete(i, "client",
                      ClientOverlay(c.name, c.yr, c.features, precinctsFile, c.br))
        ELSE Complete(i, "client", Threw("Failed to fetch precincts"))
  /\ UNCHANGED <<uiVars, envVars, loadVars, panelFocus, selectedYear, ov, cl, geoVars>>

\* model.generateContent settles (indicator focus)
LLMOutcomes == {"text", "quota", "error"}
LLMResponds(i, outcome) ==
  /\ i \in 1..Len(calls)
  /\ calls[i].pc = "llm"
  /\ calls' = [calls EXCEPT ![i].pc = "done"]
  /\ isDescriptionLoading' = FALSE
  /\ IF outcome = "text"
     THEN /\ dynamicDescription' = LLMText(calls[i].name)
          /\ descriptionCache' = [descriptionCache EXCEPT ![calls[i].cacheKey] = LLMText(calls[i].name)]
     ELSE /\ dynamicDescription' = IF outcome = "quota" THEN QuotaMessage
                                   ELSE ErrorMessage("failed")
          /\ UNCHANGED descriptionCache
  /\ UNCHANGED <<uiVars, envVars, loadVars, panelFocus, selectedYear, ov, cl, geoVars>>

(***************************************************************************)
(* Whole-call view: one computePrecinctJobsOverlay and the narrative of    *)
(* its result                                                              *)
(***************************************************************************)
RunOverlay(name, year, fetchFail) ==
  /\ ~ov.ran
  /\ name = "Sandridge" => year = 2011
  /\ \E resp \in Responses(ServiceBody(name, year, precinctsFile, jobsFiles)) :
       LET o == OverlayOutcome(name, year, jobsBreaks, jobsGeoByYear, resp, fetchFail,
                               precinctsFile, jobsFiles)
           needsJobs == ~CachedJobs(jobsGeoByYear, year).present
       IN /\ fetchFail # "none" => resp.kind = "neterr"
          /\ fetchFail = "jobs" => needsJobs
          /\ ov' = [ran |-> TRUE, name |-> name, yr |-> year, br |-> jobsBreaks,
                    resp |-> resp, fetchFail |-> fetchFail, path |-> o.path, res |-> o.res,
                    text |-> IF o.res.threw THEN ""
                             ELSE generatePrecinctNarrativeDeterministic(o.res.stats, metaScale)]
  /\ UNCHANGED <<uiVars, envVars, loadVars, panelVars, cl, geoVars>>

(***************************************************************************)
(* Classifier view: one application of jobsValueToClass                    *)
(***************************************************************************)
MaxBreak == 3
BreakLists ==
  {<<Frac(a, d), Frac(b, d), Frac(c, d), Frac(e, d)>> :
     a \in 0..MaxBreak, b \in 0..MaxBreak, c \in 0..MaxBreak, e \in 0..MaxBreak, d \in {1, 5}}
NonDecreasing(br) == \A i \in 1..Len(br) - 1 : FracLE(br[i], br[i + 1])

\* The values classified: small ones, and those at and just below the
\* default thresholds and one far above them
ClassifyValues ==
  (0..MaxBreak + 1)
  \cup {DefaultBreaks[i].num - 1 : i \in 1..4} \cup {DefaultBreaks[i].num : i \in 1..4}
  \cup {5000}

\* The values of jobsBreaks tried: null, lists of one to four thresholds,
\* and the lists loadAll derives
ClassifyLists ==
  {<<>>}
  \cup {SubSeq(b, 1, n) : b \in {c \in BreakLists : NonDecreasing(c)}, n \in 1..4}
  \cup {DynamicBreaks(m) : m \in 0..MaxVal + 1}

Classify(val, breaks) ==
  /\ ~cl.ran
  /\ cl' = [ran |-> TRUE, val |-> val, br |-> breaks, out |-> jobsValueToClass(val, breaks)]
  /\ UNCHANGED <<uiVars, envVars, loadVars, panelVars, ov, geoVars>>

\* computeJobsForPoint is called for a point (lines 1216, 1388, 1530)
JobsForPoint(lng, lat) ==
  /\ ~jp.ran
  /\ jp' = [ran |-> TRUE, pt |-> <<lng, lat>>, geo |-> jobsGeoByYear,
            out |-> computeJobsForPoint(lng, lat, jobsGeoByYear)]
  /\ UNCHANGED <<uiVars, envVars, loadVars, panelVars, ov, cl, pip, gc>>

\* pointInPolygonGeom is applied to a point and a geometry
PointInPolygon(pt, geom) ==
  /\ ~pip.ran /\ ~gc.ran
  /\ pip' = [ran |-> TRUE, pt |-> pt, geom |-> geom, out |-> pointInPolygonGeom(pt, geom)]
  /\ UNCHANGED <<uiVars, envVars, loadVars, panelVars, ov, cl, jp, gc>>

\* geomCentroid is applied to a geometry
Centroid(geom) ==
  /\ ~pip.ran /\ ~gc.ran
  /\ gc' = [ran |-> TRUE, geom |-> geom, out |-> geomCentroid(geom)]
  /\ UNCHANGED <<uiVars, envVars, loadVars, panelVars, ov, cl, jp, pip>>

\* fmtPct is applied to a share
FormatPct(x) ==
  /\ ~fp.ran
  /\ fp' = [ran |-> TRUE, x |-> x, out |-> fmtPct(x)]
  /\ UNCHANGED <<uploadVars, hoverVars, envVars, loadVars, panelVars, ov, cl, geoVars>>

(***************************************************************************)
(* CSV upload, part_006 lines 484-595.  An indicator is selected           *)
(* throughout.  A run is one call of handleFileChange or reprocessLastCsv; *)
(* the GeoJSON a /generate endpoint answers with is named by the run whose *)
(* form it was made from.                                                  *)
(***************************************************************************)
MaxUploads == 3
Scales == {"sa1", "mb"}
CsvFiles == {"a.csv", "b.csv"}
Sites ==
  {[base |-> b, proto |-> l[1], host |-> l[2]] :
     b \in {"", "http://localhost:8000"},
     l \in {<<"http:", "localhost">>, <<"https:", "app.example.org">>}}

\* const attempts = []; ... in the order of the pushes
UploadAttempts(st) ==
  (IF st.base # "" THEN <<st.base \o "/generate">> ELSE <<>>)
  \o <<"/generate", st.proto \o "//" \o st.host \o ":8000/generate",
       "http://localhost:8000/generate">>

\* What one fetch brings: an OK answer with a JSON body ("ok"), an OK answer
\* whose body is not JSON ("okbad"), or no OK answer ("fail": another status
\* or a rejection, both only set lastErr)
FetchOutcomes == {"ok", "okbad", "fail"}

NewUpload(kind, file, scale) ==
  [kind |-> kind, file |-> file, scale |-> scale, attempts |-> UploadAttempts(site),
   next |-> 1, tried |-> <<>>, answers |-> <<>>, pc |-> "fetch", result |-> "none"]

\* setUploading(true) and the code up to the first await
StartUpload(kind, file, scale) ==
  /\ Len(uploads) < MaxUploads
  /\ uploading' = TRUE
  /\ uploads' = Append(uploads, NewUpload(kind, file, scale))

\* The file input is disabled while uploading or without a scale
handleFileChange(file) ==
  /\ selectedScale # ""
  /\ ~uploading
  /\ lastCsvFile' = file
  /\ StartUpload("file", file, selectedScale)
  /\ UNCHANGED <<fp, hoverVars, site, selectedScale, uploadedGeojson>>
  /\ UNCHANGED <<envVars, loadVars, panelVars, ov, cl, geoVars>>

\* The scale select, and the effect on [selectedScale] after it
ScaleChange(scale) ==
  /\ scale # selectedScale
  /\ selectedScale' = scale
  /\ IF lastCsvFile # "" /\ scale # ""
     THEN StartUpload("reprocess", lastCsvFile, scale)
     ELSE UNCHANGED <<uploading, uploads>>
  /\ UNCHANGED <<fp, hoverVars, site, lastCsvFile, uploadedGeojson>>
  /\ UNCHANGED <<envVars, loadVars, panelVars, ov, cl, geoVars>>

\* The fetch in flight of run r settles, and the run goes on to its next
\* await: the next fetch, or its end (res.text() and res.json() settle in
\* the same step)
AttemptSettles(r, outcome) ==
  /\ r \in 1..Len(uploads)
  /\ uploads[r].pc = "fetch"
  /\ LET u == uploads[r]
         seen == [u EXCEPT !.tried = Append(u.tried, u.attempts[u.next]),
                           !.answers = Append(u.answers, outcome)]
     IN IF outcome = "ok"
        THEN /\ uploads' = [uploads EXCEPT ![r] = [seen EXCEPT !.pc = "done", !.result = "set"]]
             /\ uploadedGeojson' = [req |-> r, file |-> u.file, scale |-> u.scale]
             /\ uploading' = FALSE
        ELSE IF outcome = "okbad" \/ u.next = Len(u.attempts)
        THEN /\ uploads' = [uploads EXCEPT ![r] = [seen EXCEPT !.pc = "done", !.result = "failed"]]
             /\ uploading' = FALSE
             /\ UNCHANGED uploadedGeojson
        ELSE /\ uploads' = [uploads EXCEPT ![r] = [seen EXCEPT !.next = u.next + 1]]
             /\ UNCHANGED <<uploading, uploadedGeojson>>
  /\ UNCHANGED <<fp, hoverVars, site, selectedScale, lastCsvFile>>
  /\ UNCHANGED <<envVars, loadVars, panelVars, ov, cl, geoVars>>

(***************************************************************************)
(* Hover handlers, part_001 lines 1372-1424, part_006 lines 169-187 and    *)
(* 456-472.  Feature ids are 0..MaxFeatureId (generateId counts from 0).   *)
(***************************************************************************)
MaxFeatureId == 3
FeatureIds == 0..MaxFeatureId

\* map.setFeatureState({source, id}, {hover})
setFeatureState(fs, source, id, hover) ==
  [fs EXCEPT ![source] = IF hover THEN @ \cup {id} ELSE @ \ {id}]

\* (variant: the feature hovered before is not reset)
HoverMove_KeepPrev(fs, hs, source, id) ==
  [fs |-> setFeatureState(fs, source, id, TRUE), hs |-> [hs EXCEPT ![source] = id]]

\* The mousemove handler on the feature-state and the ref
HoverMove(fs, hs, source, id) ==
  LET prev == hs[source]
      cleared == IF prev # Undefined THEN setFeatureState(fs, source, prev, FALSE) ELSE fs
  IN [fs |-> setFeatureState(cleared, source, id, TRUE), hs |-> [hs EXCEPT ![source] = id]]

\* The mouseleave handler on the feature-state and the ref
HoverLeave(fs, hs, source) ==
  LET prev == hs[source]
  IN IF prev # Undefined
     THEN [fs |-> setFeatureState(fs, source, prev, FALSE), hs |-> [hs EXCEPT ![source] = Undefined]]
     ELSE [fs |-> fs, hs |-> hs]

IsJobsLayer(layer) == layer # "uploaded-geojson-fill"
DznCode(id) == "DZN" \o ToString(id)

\* mousemove on a layer over feature id (e.features[0])
MouseMove(layer, id) ==
  /\ LET after == HoverMove(featureState, hoverStateBySource, LayerSource(layer), id)
     IN /\ featureState' = after.fs
        /\ hoverStateBySource' = after.hs
  /\ hoveredDZNCode' = IF IsJobsLayer(layer) THEN DznCode(id) ELSE hoveredDZNCode
  /\ UNCHANGED <<fp, uploadVars, envVars, loadVars, panelVars, ov, cl, geoVars>>

\* mouseleave on a layer
MouseLeave(layer) ==
  /\ LET after == HoverLeave(featureState, hoverStateBySource, LayerSource(layer))
     IN /\ featureState' = after.fs
        /\ hoverStateBySource' = after.hs
  /\ hoveredDZNCode' = IF IsJobsLayer(layer) THEN "" ELSE hoveredDZNCode
  /\ UNCHANGED <<fp, uploadVars, envVars, loadVars, panelVars, ov, cl, geoVars>>

(***************************************************************************)
(* Specifications                                                          *)
(***************************************************************************)
\* -- the dashboard: a small set of files, every interleaving of the panel
MontagueGeom == <<{1}, Cells \ {1}>>
PanelPrecincts ==
  <<PrecinctFeature("Montague", MontagueGeom), PrecinctFeature("Lorimer", <<{}>>)>>
PanelZones ==
  [i \in 1..MaxZones |->
     IF i = 1 THEN ZoneFeature(1, NumProp(MaxVal), <<{1}>>)
     ELSE IF i = 2 THEN ZoneFeature(2, NaNProp, <<Cells \ {1}>>)
     ELSE ZoneFeature(i, NumProp(0), <<{}>>)]
OtherYearZones == <<ZoneFeature(1, NumProp(0), <<Cells>>)>>

Init ==
  /\ precinctsFile = PanelPrecincts
  /\ jobsFiles = [y \in Years |-> IF y = 2011 THEN PanelZones ELSE OtherYearZones]
  /\ metaScale = "DZN"
  /\ InitPanel
  /\ ov = NoOv
  /\ cl = NoCl
  /\ InitGeo
  /\ InitUi

Next ==
  \/ \E ok \in BOOLEAN : LoadAllDone(ok)
  \/ \E name \in PRECINCT_NAMES : FocusPrecinct(name)
  \/ \E y \in YearChoices : YearChange(y)
  \/ \E i \in 1..MaxCalls : ServerResponds(i)
  \/ \E i \in 1..MaxCalls, ok \in BOOLEAN : JobsFetched(i, ok)
  \/ \E i \in 1..MaxCalls, ok \in BOOLEAN : PrecinctsFetched(i, ok)
  \/ \E i \in 1..MaxCalls, outcome \in LLMOutcomes : LLMResponds(i, outcome)

Spec == Init /\ [][Next]_vars

\* -- the panel once loadAll has stored the collections: clicks on
\* precincts and zones, year chips, and the answers in every order
InitFocus ==
  /\ precinctsFile = PanelPrecincts
  /\ jobsFiles = [y \in Years |-> IF y = 2011 THEN PanelZones ELSE OtherYearZones]
  /\ metaScale = "DZN"
  /\ jobsGeoByYear = [y \in Years |-> GeoEntry(TRUE, jobsFiles[y])]
  /\ jobsBreaks = DynamicBreaks(GlobalMax(jobsFiles))
  /\ loadState = "done"
  /\ panelFocus = Focus("indicator", indicatorName)
  /\ selectedYear = 2011
  /\ dynamicDescription = ""
  /\ isDescriptionLoading = TRUE
  /\ descriptionCache = [k \in CacheKeys |-> ""]
  /\ calls = <<NewCall("desc", "indicator", indicatorName, 2011,
                       IndicatorKey(indicatorName), <<>>, "llm")>>
  /\ ov = NoOv
  /\ cl = NoCl
  /\ InitGeo
  /\ InitUi

NextFocus ==
  \/ \E name \in PRECINCT_NAMES : FocusPrecinct(name)
  \/ \E yr \in Years : ZoneClick(yr)
  \/ \E y \in YearChoices : YearChange(y)
  \/ \E i \in 1..MaxCalls : ServerResponds(i)
  \/ \E i \in 1..MaxCalls, ok \in BOOLEAN : JobsFetched(i, ok)
  \/ \E i \in 1..MaxCalls, ok \in BOOLEAN : PrecinctsFetched(i, ok)
  \/ \E i \in 1..MaxCalls, outcome \in LLMOutcomes : LLMResponds(i, outcome)

SpecFocus == InitFocus /\ [][NextFocus]_vars

\* -- the dashboard with a service that may stay silent.  Every request in
\* flight is settled by the network at some time (a reply, an error, or for
\* the service a silence that lasts); the year is left alone.
NextLive ==
  \/ \E ok \in BOOLEAN : LoadAllDone(ok)
  \/ \E name \in PRECINCT_NAMES : FocusPrecinct(name)
  \/ \E i \in 1..MaxCalls : ServerResponds(i)
  \/ \E i \in 1..MaxCalls : ServerHangs(i)
  \/ \E i \in 1..MaxCalls, ok \in BOOLEAN : JobsFetched(i, ok)
  \/ \E i \in 1..MaxCalls, ok \in BOOLEAN : PrecinctsFetched(i, ok)
  \/ \E i \in 1..MaxCalls, outcome \in LLMOutcomes : LLMResponds(i, outcome)

FairLive ==
  \A i \in 1..MaxCalls :
    /\ WF_vars(ServerResponds(i) \/ ServerHangs(i))
    /\ WF_vars(\E ok \in BOOLEAN : JobsFetched(i, ok))
    /\ WF_vars(\E ok \in BOOLEAN : PrecinctsFetched(i, ok))
    /\ WF_vars(\E outcome \in LLMOutcomes : LLMResponds(i, outcome))

SpecLive == Init /\ [][NextLive]_vars /\ FairLive

\* -- computePrecinctJobsOverlay over every small data set
OverlayPrecinctFiles == {<<PrecinctFeature("Montague", g)>> : g \in Geoms}

InitOverlay ==
  /\ precinctsFile \in OverlayPrecinctFiles
  /\ \E fc \in ZoneCollections :
       jobsFiles = [y \in Years |-> IF y = 2011 THEN fc ELSE OtherYearZones]
  /\ metaScale \in {"DZN", "Destination Zone"}
  /\ InitPanel
  /\ ov = NoOv
  /\ cl = NoCl
  /\ InitGeo
  /\ InitUi

NextOverlay ==
  \/ LoadAllDone(TRUE)
  \/ \E name \in {"Montague", "Sandridge"}, year \in {2011, 2006}, ff \in FetchFails :
       RunOverlay(name, year, ff)

SpecOverlay == InitOverlay /\ [][NextOverlay]_vars

\* -- jobsValueToClass over every small threshold list
InitClassify ==
  /\ precinctsFile = PanelPrecincts
  /\ jobsFiles = [y \in Years |-> OtherYearZones]
  /\ metaScale = "DZN"
  /\ InitPanel
  /\ ov = NoOv
  /\ cl = NoCl
  /\ InitGeo
  /\ InitUi

NextClassify ==
  \E val \in ClassifyValues, breaks \in ClassifyLists :
    Classify(val, breaks)

SpecClassify == InitClassify /\ [][NextClassify]_vars

\* -- loadAll over zone collections of every year, negative values included
LoadProps == RawProps \cup {NumProp(-1)}
LoadCollectionsOfLen(n) ==
  {[i \in 1..n |-> ZoneFeature(i, raws[i], <<{i} \cap Cells>>)] : raws \in [1..n -> LoadProps]}

InitLoad ==
  /\ precinctsFile = PanelPrecincts
  /\ \E a \in UNION {LoadCollectionsOfLen(n) : n \in 0..MaxZones},
        b \in LoadCollectionsOfLen(1), c \in LoadCollectionsOfLen(1) :
       jobsFiles = [y \in Years |-> IF y = 2011 THEN a ELSE IF y = 2016 THEN b ELSE c]
  /\ metaScale = "DZN"
  /\ InitPanel
  /\ ov = NoOv
  /\ cl = NoCl
  /\ InitGeo
  /\ InitUi

NextLoad == \E ok \in BOOLEAN : LoadAllDone(ok)

SpecLoad == InitLoad /\ [][NextLoad]_vars

\* -- computeJobsForPoint: zones with coordinates, which may overlap
MaxEven == MaxCoord - (MaxCoord % 2)
WholeBox == <<0, 0, MaxEven, MaxEven>>
PointZoneGeoms ==
  {Geom("Polygon", <<RectRing(WholeBox)>>),
   Geom("Polygon", <<RectRing(<<0, 0, 2, 2>>)>>),
   Geom("MultiPolygon", <<<<RectRing(<<2, 2, 4, 4>>)>>>>),
   NullGeom}
PointCollectionsOfLen(n) ==
  {[i \in 1..n |-> ZoneFeature(i, z[i][1], z[i][2])] : z \in [1..n -> RawProps \X PointZoneGeoms]}
ClickCoords == {c \in 0..MaxCoord : c % 2 = 1}

InitPoint ==
  /\ precinctsFile = PanelPrecincts
  /\ \E a \in UNION {PointCollectionsOfLen(n) : n \in 0..MaxZones},
        g \in PointZoneGeoms :
       jobsFiles = [y \in Years |->
                      IF y = 2011 THEN a
                      ELSE IF y = 2016 THEN <<ZoneFeature(1, NumProp(MaxVal), g)>>
                      ELSE <<ZoneFeature(1, NumProp(MaxVal), Geom("Polygon", <<RectRing(WholeBox)>>))>>]
  /\ metaScale = "DZN"
  /\ InitPanel
  /\ ov = NoOv
  /\ cl = NoCl
  /\ InitGeo
  /\ InitUi

NextPoint ==
  \/ \E ok \in BOOLEAN : LoadAllDone(ok)
  \/ \E lng \in ClickCoords, lat \in ClickCoords : JobsForPoint(lng, lat)

SpecPoint == InitPoint /\ [][NextPoint]_vars

\* -- computePrecinctJobsOverlay on a precinct of one cell more, where two
\* zones can cut equal areas out of it
TieCells == 1..NCells + 1
TieGeoms == {<<a>> : a \in (SUBSET TieCells) \ {{}}}
TieCollections ==
  {fc \in {<<ZoneFeature(1, NumProp(v), g), ZoneFeature(2, NumProp(w), h)>> :
             v \in 0..MaxVal, w \in 0..MaxVal, g \in TieGeoms, h \in TieGeoms} :
     ZonesDisjoint(fc)}

InitTie ==
  /\ precinctsFile = <<PrecinctFeature("Montague", <<TieCells>>)>>
  /\ \E fc \in TieCollections :
       jobsFiles = [y \in Years |-> IF y = 2011 THEN fc ELSE OtherYearZones]
  /\ metaScale = "DZN"
  /\ InitPanel
  /\ ov = NoOv
  /\ cl = NoCl
  /\ InitGeo
  /\ InitUi

NextTie ==
  \/ LoadAllDone(TRUE)
  \/ \E ff \in FetchFails : RunOverlay("Montague", 2011, ff)

SpecTie == InitTie /\ [][NextTie]_vars

\* -- computePrecinctJobsOverlay over zones with defects: no geometry, a
\* part without area, parts on which turf.intersect throws
PartSet(geom) == {geom[i] : i \in 1..Len(geom)}
FaultyZone(i, raw, geom, throws) ==
  [code |-> ZoneCode(i), raw |-> raw, geometry |-> geom, throws |-> throws]
FaultyShapes ==
  {<<g, t>> \in (Geoms \cup {<<>>}) \X (SUBSET SUBSET Cells) : t \subseteq PartSet(g) \ {{}}}
FaultyCollections ==
  UNION {{fc \in {[i \in 1..n |-> FaultyZone(i, z[i][1], z[i][2][1], z[i][2][2])] :
                    z \in [1..n -> {NumProp(0), NumProp(MaxVal)} \X FaultyShapes]} :
            ZonesDisjoint(fc)} : n \in 0..MaxZones}

InitFaulty ==
  /\ precinctsFile \in OverlayPrecinctFiles
  /\ \E fc \in FaultyCollections :
       jobsFiles = [y \in Years |-> IF y = 2011 THEN fc ELSE OtherYearZones]
  /\ metaScale = "DZN"
  /\ InitPanel
  /\ ov = NoOv
  /\ cl = NoCl
  /\ InitGeo
  /\ InitUi

NextFaulty ==
  \/ LoadAllDone(TRUE)
  \/ \E ff \in FetchFails : RunOverlay("Montague", 2011, ff)

SpecFaulty == InitFaulty /\ [][NextFaulty]_vars

\* -- the upload page: files, scale changes and answers in every order
InitUpload ==
  /\ precinctsFile = PanelPrecincts
  /\ jobsFiles = [y \in Years |-> OtherYearZones]
  /\ metaScale = "DZN"
  /\ InitPanel
  /\ ov = NoOv
  /\ cl = NoCl
  /\ InitGeo
  /\ fp = NoFp
  /\ site \in Sites
  /\ InitUploadState
  /\ InitHover

NextUpload ==
  \/ \E file \in CsvFiles : handleFileChange(file)
  \/ \E scale \in Scales \cup {""} : ScaleChange(scale)
  \/ \E r \in 1..MaxUploads, outcome \in FetchOutcomes : AttemptSettles(r, outcome)

SpecUpload == InitUpload /\ [][NextUpload]_vars

\* -- the pointer over the layers of the map
NextHover ==
  \/ \E layer \in HoverLayers, id \in FeatureIds : MouseMove(layer, id)
  \/ \E layer \in HoverLayers : MouseLeave(layer)

SpecHover == Init /\ [][NextHover]_vars

\* -- fmtPct over the shares n / PctDen and the shares of small denominator
PctDen == 10000
MaxDen == 7
PctShares ==
  {Frac(n, PctDen) : n \in 0..PctDen}
  \cup UNION {{Frac(n, d) : n \in 0..d} : d \in 1..MaxDen}

NextFormat == ~fp.ran /\ \E x \in PctShares : FormatPct(x)

SpecFormat == Init /\ [][NextFormat]_vars

\* -- pointInPolygonGeom and geomCentroid over the geometries of the grid
ConvexRings == {RectRing(b) : b \in Boxes} \cup {TriRing(b, k) : b \in Boxes, k \in 1..4}
OuterRings == ConvexRings \cup {ReverseRing(r) : r \in ConvexRings}
HoleRings == {ReverseRing(RectRing(b)) : b \in Boxes}
PolygonCoords == {<<o>> : o \in OuterRings} \cup {<<o, h>> : o \in OuterRings, h \in HoleRings}
PartCoords ==
  {<<RectRing(b)>> : b \in Boxes} \cup {<<RectRing(b), h>> : b \in Boxes, h \in HoleRings}
MultiCoords ==
  {<<>>} \cup {<<p>> : p \in PartCoords}
  \cup {<<p, <<RectRing(b)>>>> : p \in PartCoords, b \in Boxes}
GridPoints == (0..MaxCoord) \X (0..MaxCoord)
PointGeoms ==
  {Geom("Polygon", c) : c \in PolygonCoords}
  \cup {Geom("MultiPolygon", c) : c \in MultiCoords}
  \cup {NullGeom, Geom("Point", <<1, 1>>), Geom("LineString", RectRing(WholeBox))}

\* Rings without area: no point, one point repeated, points on a line
FlatRings ==
  {<<>>}
  \cup {<<<<c, c>>, <<c, c>>, <<c, c>>, <<c, c>>>> : c \in EvenCoords}
  \cup {<<<<0, c>>, <<2, c>>, <<MaxEven, c>>, <<0, c>>>> : c \in EvenCoords}
CentroidRings == OuterRings \cup FlatRings
CentroidGeoms ==
  {Geom("Polygon", <<>>)}
  \cup {Geom("Polygon", <<o>>) : o \in CentroidRings}
  \cup {Geom("Polygon", <<o, h>>) : o \in ConvexRings, h \in HoleRings}
  \cup {Geom("MultiPolygon", <<>>), Geom("MultiPolygon", <<<<>>>>)}
  \cup {Geom("MultiPolygon", <<<<o>>>>) : o \in CentroidRings}
  \cup {Geom("MultiPolygon", <<<<o>>, <<q>>>>) : o \in ConvexRings \cup FlatRings, q \in ConvexRings \cup FlatRings}
  \cup {NullGeom, Geom("Point", <<1, 1>>)}

\* one application in a behaviour
NextGeom ==
  \/ ~pip.ran /\ ~gc.ran /\ \E pt \in GridPoints, geom \in PointGeoms : PointInPolygon(pt, geom)
  \/ ~pip.ran /\ ~gc.ran /\ \E geom \in CentroidGeoms : Centroid(geom)

SpecGeom == Init /\ [][NextGeom]_vars

(***************************************************************************)
(* Properties                                                              *)
(***************************************************************************)

\* C1. For a 4-element non-decreasing threshold list b and a value v,
\* jobsValueToClass returns exactly one class in 0..4: 0 when v < b[0], i when
\* b[i-1] <= v < b[i] (i in 1..3), 4 when v >= b[3].
C1_ClassPartition ==
  (cl.ran /\ Len(cl.br) = 4 /\ NonDecreasing(cl.br)) =>
    /\ cl.out \in 0..4
    /\ (cl.out = 0) <=> LessThanBreak(cl.val, cl.br[1])
    /\ \A i \in 1..3 :
         (cl.out = i) <=> (~LessThanBreak(cl.val, cl.br[i]) /\ LessThanBreak(cl.val, cl.br[i + 1]))
    /\ (cl.out = 4) <=> ~LessThanBreak(cl.val, cl.br[4])

C1_Witness ==
  /\ cl.ran /\ Len(cl.br) = 4 /\ NonDecreasing(cl.br)
  /\ cl.out = 2
  /\ cl.br[2].num = cl.val * cl.br[2].den
  /\ FracLT(cl.br[2], cl.br[3])


\* The answer shape of POST /api/precinct_overlay:
\* {dznIntersectCount: number, precinctArea: number, intersections: [...]}
ShapeOK(resp) ==
  resp.kind = "json" /\ resp.body.hasCount /\ resp.body.hasArea /\ resp.body.interKind = "array"

\* C2. computePrecinctJobsOverlay uses the remote service's answer when the
\* answer is well formed, and falls back to the client-side computation when
\* the service is unreachable, answers with a non-OK status or answers with a
\* malformed body.
C2_RemoteFirst == ov.ran => (ov.path = "server" <=> ShapeOK(ov.resp))

\* What the client path computes from the files for precinct `name`: the
\* precinct area and the (code, value, area) of each intersected zone.
OverlayFeatures(year) == jobsFiles[FileYear(year)]
PartsOfPrecinct(name) == toCleanPolygonParts(FindPrecinct(precinctsFile, name)[1].geometry)
ZoneData(name, features) ==
  LET hit == SelectSeq(features, LAMBDA f : ZoneAccumArea(f, PartsOfPrecinct(name)) > 0)
  IN [i \in 1..Len(hit) |->
        [code |-> hit[i].code, value |-> ZoneValue(hit[i].raw),
         area |-> ZoneAccumArea(hit[i], PartsOfPrecinct(name))]]
SameData(body, name, features) ==
  /\ FindPrecinct(precinctsFile, name) # <<>>
  /\ body.precinctArea = PrecinctArea(PartsOfPrecinct(name))
  /\ body.intersections = ZoneData(name, features)

\* C3. For the same precinct, year, precinct area and per-zone intersection
\* data (code, value, area), the result mapped from the service's well-formed
\* answer and the result the client-side computation builds are the same:
\* same count, same classes in the same order with the same shares, same
\* per-zone class assignments.
C3_PathsEquivalent ==
  LET cli == ClientOverlay(ov.name, ov.yr, OverlayFeatures(ov.yr), precinctsFile, ov.br)
  IN (/\ ov.ran /\ ov.path = "server" /\ ShapeOK(ov.resp)
      /\ SameData(ov.resp.body, ov.name, OverlayFeatures(ov.yr))
      /\ ~cli.threw)
     => /\ ov.res.stats = cli.stats
        /\ ov.text = generatePrecinctNarrativeDeterministic(cli.stats, metaScale)

C3_Witness ==
  /\ ov.ran /\ ov.path = "server" /\ ShapeOK(ov.resp)
  /\ SameData(ov.resp.body, ov.name, OverlayFeatures(ov.yr))
  /\ Len(ov.br) = 4
  /\ Len(ov.res.stats.classes) = 2
  /\ ov.res.stats.classes[1].index = 4

\* C4. In every result computePrecinctJobsOverlay returns, from either path,
\* a record exists for a zone exactly when the zone's accumulated
\* intersection area with the precinct is > 0, and dznIntersectCount is the
\* number of records and the sum of the classes' counts.
C4_RecordsAndCount ==
  (ov.ran /\ ~ov.res.threw) =>
    LET st == ov.res.stats
    IN /\ \A r \in 1..Len(st.intersections) : st.intersections[r].area > 0
       /\ ov.path = "client" =>
            {st.intersections[r].code : r \in 1..Len(st.intersections)}
              = {OverlayFeatures(ov.yr)[k].code :
                   k \in {j \in 1..Len(OverlayFeatures(ov.yr)) :
                            ZoneAccumArea(OverlayFeatures(ov.yr)[j], PartsOfPrecinct(ov.name)) > 0}}
       /\ st.dznIntersectCount = Len(st.intersections)
       /\ st.dznIntersectCount = SumSeq([k \in 1..Len(st.classes) |-> st.classes[k].count])

\* C5. In every result every class share is >= 0, the shares sum to at most
\* 1, and every per-zone intersection area is >= 0 and <= the precinct area.
C5_SharesBounded ==
  (ov.ran /\ ~ov.res.threw) =>
    LET st == ov.res.stats
    IN /\ \A k \in 1..Len(st.classes) :
            /\ FracLE(Frac(0, 1), st.classes[k].areaShare)
            /\ st.classes[k].areaShare.den = st.precinctArea
       /\ SumSeq([k \in 1..Len(st.classes) |-> st.classes[k].areaShare.num]) <= st.precinctArea
       /\ \A r \in 1..Len(st.intersections) :
            st.intersections[r].area >= 0 /\ st.intersections[r].area <= st.precinctArea

NoZoneOverlaps(name, year) ==
  /\ FindPrecinct(precinctsFile, name) # <<>>
  /\ ZoneData(name, OverlayFeatures(year)) = <<>>

\* C6. The narrative of a result is the fixed no-data sentence (precinct,
\* scale label, year, zero intersected zones, no classes) exactly when
\* dznIntersectCount is 0 or the result has no classes; a precinct that no
\* zone of the year overlaps gives, on the client path, dznIntersectCount 0
\* and that sentence.
C6_NoDataBranch ==
  (ov.ran /\ ~ov.res.threw) =>
    LET st == ov.res.stats
        nodata == NoDataNarrative(ov.name, SpatialScale(metaScale), ov.yr)
    IN /\ (ov.text = nodata) <=> (st.dznIntersectCount = 0 \/ st.classes = <<>>)
       /\ (NoZoneOverlaps(ov.name, ov.yr) /\ ov.path = "client")
            => (st.dznIntersectCount = 0 /\ ov.text = nodata)

C6_Witness ==
  /\ ov.ran /\ ~ov.res.threw /\ ov.path = "client"
  /\ NoZoneOverlaps(ov.name, ov.yr)
  /\ Len(OverlayFeatures(ov.yr)) > 0
  /\ ov.text = NoDataNarrative(ov.name, SpatialScale(metaScale), ov.yr)

\* A run of an effect settles in this step, its file fetches having succeeded
Finishes(i) ==
  /\ calls[i].pc # "done" /\ calls'[i].pc = "done"
  /\ calls'[i].res.err \notin {"Failed to fetch jobs", "Failed to fetch precincts"}
\* ... and the effect puts its narrative on the panel
Shows(c) == c.eff = "desc" \/ ~c.canceled
UnknownInput(name, year) ==
  FindPrecinct(precinctsFile, name) = <<>> \/ year \notin Years
ZeroAreaPrecinct(name) ==
  /\ FindPrecinct(precinctsFile, name) # <<>>
  /\ PrecinctArea(PartsOfPrecinct(name)) = 0

\* C7. For a precinct name that is not in the precinct collection, or a year
\* without a zone collection, computePrecinctJobsOverlay does not throw and
\* returns an empty result (dznIntersectCount 0, no intersections, no
\* classes), and the panel then shows the no-data narrative.
C7_UnknownInputEmpty ==
  [][\A i \in 1..Len(calls) :
       (Finishes(i) /\ calls[i].type = "precinct" /\ UnknownInput(calls[i].name, calls[i].yr))
       => /\ ~calls'[i].res.threw
          /\ calls'[i].res.stats.dznIntersectCount = 0
          /\ calls'[i].res.stats.intersections = <<>>
          /\ calls'[i].res.stats.classes = <<>>
          /\ Shows(calls[i]) =>
               dynamicDescription' =
                 NoDataNarrative(calls[i].name, SpatialScale(metaScale), calls[i].yr)]_vars

\* C8. For a precinct whose cleaned geometry has area 0 the overlay
\* computation fails definitively, and the caller handles the failure by
\* showing the no-data narrative.
C8_ZeroAreaNoData ==
  [][\A i \in 1..Len(calls) :
       (Finishes(i) /\ calls[i].type = "precinct" /\ ZeroAreaPrecinct(calls[i].name))
       => /\ calls'[i].path = "client" => calls'[i].res.threw
          /\ Shows(calls[i]) =>
               dynamicDescription' =
                 NoDataNarrative(calls[i].name, SpatialScale(metaScale), calls[i].yr)]_vars

\* C9. A zone that overlaps the precinct and whose attribute value is missing
\* or not a finite number is kept, with value 0 and class 0 ('very low'),
\* under the default thresholds and under every dynamically derived set.
C9_MissingValueVeryLow ==
  (ov.ran /\ ov.path = "client" /\ ~ov.res.threw) =>
    \A k \in 1..Len(OverlayFeatures(ov.yr)) :
      LET f == OverlayFeatures(ov.yr)[k]
      IN (f.raw.kind # "num" /\ ZoneAccumArea(f, PartsOfPrecinct(ov.name)) > 0) =>
           \E r \in 1..Len(ov.res.stats.intersections) :
             /\ ov.res.stats.intersections[r].code = f.code
             /\ ov.res.stats.intersections[r].value = 0
             /\ ov.res.stats.intersections[r].classIndex = 0
             /\ ov.res.stats.intersections[r].classLabel = "very low"

\* C10. For a result with at least one class the narrative lists every
\* class of the result exactly once in the result's order (descending area
\* share), names the first class, which has the largest share, as dominant
\* in the 'covers' and 'Therefore' sentences, and has an 'In contrast'
\* sentence, over the remaining classes in order, exactly when there is
\* more than one class.
C10_NarrativeOrder ==
  (ov.ran /\ ~ov.res.threw /\ ov.res.stats.classes # <<>>) =>
    LET st == ov.res.stats
        cs == st.classes
        first == cs[1]
        rest == SubSeq(cs, 2, Len(cs))
        contrast ==
          " In contrast, " \o joinList([i \in 1..Len(rest) |-> Bold(rest[i].label)])
          \o " account for "
          \o joinList([i \in 1..Len(rest) |-> Bold(fmtPct(rest[i].areaShare) \o "%")])
          \o ", respectively."
    IN /\ \A i, j \in 1..Len(cs) : i # j => cs[i].label # cs[j].label
       /\ \A i, j \in 1..Len(cs) : i < j => FracLE(cs[j].areaShare, cs[i].areaShare)
       /\ \A i \in 1..Len(cs) : FracLE(cs[i].areaShare, first.areaShare)
       /\ ov.text =
            NarrativeS1(st, SpatialScale(metaScale))
            \o " Within the precinct, the " \o Bold(indicatorName) \o " classes include "
            \o joinList([i \in 1..Len(cs) |-> Bold(cs[i].label)]) \o "."
            \o " The " \o Bold(first.label) \o " class covers "
            \o Bold(fmtPct(first.areaShare) \o "%") \o " of the precinct area."
            \o (IF Len(cs) > 1 THEN contrast ELSE "")
            \o " Therefore, the " \o Bold(st.precinct)
            \o " precinct is dominantly characterized by a " \o Bold(first.label)
            \o " level of " \o Bold(indicatorName) \o "."

C10_Witness ==
  /\ ov.ran /\ ~ov.res.threw
  /\ Len(ov.res.stats.classes) = 2
  /\ ov.res.stats.classes[1].index > ov.res.stats.classes[2].index
  /\ FracLT(ov.res.stats.classes[2].areaShare, ov.res.stats.classes[1].areaShare)

StartsWith(text, prefix) ==
  Len(text) >= Len(prefix) /\ SubSeq(text, 1, Len(prefix)) = prefix

\* The scenario of C11: Montague, 2011, scale label 'DZN', two intersected
\* zones in two classes.
MontagueTwoZones ==
  /\ ov.ran /\ ~ov.res.threw
  /\ ov.name = "Montague" /\ ov.yr = 2011 /\ SpatialScale(metaScale) = "DZN"
  /\ ov.res.stats.dznIntersectCount = 2
  /\ Len(ov.res.stats.classes) = 2

\* C11 (as stated). In the scenario the narrative opens with exactly
\* "The **Montague** precinct intersects with **2** **DZN** area(s) based on
\* the **2011** dataset."
C11_OpensAreaParen ==
  MontagueTwoZones =>
    StartsWith(ov.text,
      "The **Montague** precinct intersects with **2** **DZN** area(s) based on the **2011** dataset.")

\* C11 (amended). In the scenario the narrative opens with exactly
\* "The **Montague** precinct intersects with **2** **DZN** areas based on
\* the **2011** dataset.": the noun is 'area' for a count of 1 and 'areas'
\* otherwise.
C11_OpensAreas ==
  /\ MontagueTwoZones =>
       StartsWith(ov.text,
         "The **Montague** precinct intersects with **2** **DZN** areas based on the **2011** dataset.")
  /\ (ov.ran /\ ~ov.res.threw /\ ov.res.stats.classes # <<>>
        /\ ov.res.stats.dznIntersectCount = 1) =>
       StartsWith(ov.text,
         "The " \o Bold(ov.name) \o " precinct intersects with **1** "
         \o Bold(SpatialScale(metaScale)) \o " area based on the ")

C11_Witness == MontagueTwoZones /\ ov.path = "client"

\* The value equals the threshold b
EqualsBreak(val, b) == val * b.den = b.num
StrictlyIncreasing(br) == \A i \in 1..Len(br) - 1 : FracLT(br[i], br[i + 1])

\* val is br[i] - e for an e that reaches no smaller threshold
JustBelow(val, br, i) ==
  /\ LessThanBreak(val, br[i])
  /\ \A k \in 1..4 : FracLT(br[k], br[i]) => ~LessThanBreak(val, br[k])

\* C12 (as stated). For each boundary i (the i-th threshold) of a threshold
\* list, the value at the threshold is classified i and a value just below
\* it is classified i - 1.
C12_NoOffByOne ==
  (cl.ran /\ Len(cl.br) = 4 /\ NonDecreasing(cl.br)) =>
    \A i \in 1..4 :
      /\ EqualsBreak(cl.val, cl.br[i]) => cl.out = i
      /\ JustBelow(cl.val, cl.br, i) => cl.out = i - 1

\* C12 (amended). For a strictly increasing list the value at the i-th
\* threshold is classified i and every value below it and not below the
\* previous threshold is classified i - 1; when thresholds are equal the
\* value at a threshold is classified by the number of thresholds that do
\* not exceed it.
C12_NoOffByOneStrict ==
  (cl.ran /\ Len(cl.br) = 4 /\ NonDecreasing(cl.br)) =>
    \A i \in 1..4 :
      /\ EqualsBreak(cl.val, cl.br[i]) =>
           cl.out = Cardinality({k \in 1..4 : FracLE(cl.br[k], cl.br[i])})
      /\ StrictlyIncreasing(cl.br) =>
           /\ EqualsBreak(cl.val, cl.br[i]) => cl.out = i
           /\ JustBelow(cl.val, cl.br, i) => cl.out = i - 1

C12_Witness ==
  /\ cl.ran /\ Len(cl.br) = 4 /\ StrictlyIncreasing(cl.br)
  /\ EqualsBreak(cl.val, cl.br[3])
  /\ cl.out = 3

\* C13. For fixed thresholds jobsValueToClass is monotonic: v <= w implies
\* class(v) <= class(w), for the default thresholds and for every derived
\* list, lists with equal thresholds included.
C13_Monotonic ==
  cl.ran =>
    \A w \in ClassifyValues :
      /\ cl.val <= w => cl.out <= jobsValueToClass(w, cl.br)
      /\ w <= cl.val => jobsValueToClass(w, cl.br) <= cl.out

C13_Witness ==
  /\ cl.ran /\ Len(cl.br) = 4
  /\ cl.br[2] = cl.br[3] /\ FracLT(cl.br[1], cl.br[2])
  /\ EqualsBreak(cl.val, cl.br[2])
  /\ cl.out = 3

\* C14. When jobsBreaks is absent or has fewer than 4 thresholds the fixed
\* set [591, 1097, 1356, 2742] classifies (590 -> 0, 591 -> 1, 1356 -> 3,
\* 5000 -> 4); a list of 4 thresholds is always used instead.
C14_DefaultBreaks ==
  cl.ran =>
    /\ Len(cl.br) < 4 =>
         /\ cl.out = IF cl.val < 591 THEN 0 ELSE IF cl.val < 1097 THEN 1
                     ELSE IF cl.val < 1356 THEN 2 ELSE IF cl.val < 2742 THEN 3 ELSE 4
         /\ cl.val = 590 => cl.out = 0
         /\ cl.val = 591 => cl.out = 1
         /\ cl.val = 1356 => cl.out = 3
         /\ cl.val = 5000 => cl.out = 4
    /\ Len(cl.br) = 4 =>
         cl.out = Cardinality({k \in 1..4 : ~LessThanBreak(cl.val, cl.br[k])})

C14_Witness ==
  /\ cl.ran /\ Len(cl.br) \in 1..3
  /\ cl.val = 1356
  /\ cl.out = 3

\* Every finite attribute value of every zone of every year's collection
\* (a missing attribute reads as 0)
AllFiniteValues ==
  UNION {{jobsFiles[y][k].raw.n :
            k \in {j \in 1..Len(jobsFiles[y]) : jobsFiles[y][j].raw.kind # "nan"}}
         : y \in Years}

\* 5 * b for a threshold b that is a multiple of 1/5
Times5(b) == (5 * b.num) \div b.den

\* C15. After loading, jobsBreaks is [max/5, 2*max/5, 3*max/5, 4*max/5],
\* max being the largest finite attribute value over every zone of every
\* year's collection and never below 0; the list is non-decreasing and cuts
\* [0, max] into five equal intervals.
C15_DynamicBreaks ==
  loadState = "done" =>
    \E max \in AllFiniteValues \cup {0} :
      /\ \A v \in AllFiniteValues \cup {0} : v <= max
      /\ max >= 0
      /\ Len(jobsBreaks) = 4
      /\ \A k \in 1..4 : jobsBreaks[k].num * 5 = k * max * jobsBreaks[k].den
      /\ NonDecreasing(jobsBreaks)
      /\ Times5(jobsBreaks[1]) - 0 = max
      /\ \A k \in 1..3 : Times5(jobsBreaks[k + 1]) - Times5(jobsBreaks[k]) = max
      /\ 5 * max - Times5(jobsBreaks[4]) = max
      /\ \A y \in Years : jobsGeoByYear[y] = GeoEntry(TRUE, jobsFiles[y])

C15_Witness ==
  /\ loadState = "done"
  /\ jobsFiles[2016][1].raw = NumProp(MaxVal)
  /\ jobsFiles[2021][1].raw = MissingProp
  /\ Len(jobsFiles[2011]) = 2
  /\ jobsFiles[2011][1].raw = NumProp(-1)
  /\ jobsFiles[2011][2].raw = NaNProp
  /\ jobsBreaks[4] = Frac(4 * MaxVal, 5)

\* C16. Two calls of computePrecinctJobsOverlay with the same precinct name,
\* the same year and the same precinct and zone collections return the same
\* result: nothing an earlier call left behind, and no other state of the
\* component, changes it.  (The files never change in a behaviour; the two
\* calls compared took the same path.)
C16_Idempotent ==
  \A i, j \in 1..Len(calls) :
    (/\ calls[i].type = "precinct" /\ calls[j].type = "precinct"
     /\ calls[i].pc = "done" /\ calls[j].pc = "done"
     /\ calls[i].name = calls[j].name /\ calls[i].yr = calls[j].yr
     /\ calls[i].path = calls[j].path
     /\ ~calls[i].res.threw /\ ~calls[j].res.threw)
    => calls[i].res = calls[j].res

\* C17: every call of computePrecinctJobsOverlay at some time completes, with
\* a result or a failure: a request to the service that is in flight does
\* not stay in flight for ever.
C17_CallCompletes ==
  \A i \in 1..MaxCalls :
    (i <= Len(calls) /\ calls[i].type = "precinct")
      ~> (i <= Len(calls) /\ calls[i].pc = "done")

\* The zones of a loaded collection that contain the point
Containing(pt, entry) ==
  {i \in 1..Len(entry.features) : pointInPolygonGeom(pt, entry.features[i].geometry)}

Cross(a, b, p) == (b[1] - a[1]) * (p[2] - a[2]) - (b[2] - a[2]) * (p[1] - a[1])
Between(u, v, w) == (u <= w /\ w <= v) \/ (v <= w /\ w <= u)
\* inside a convex ring: strictly on one side of all its edges
StrictlyInside(pt, ring) ==
  \/ \A i \in 1..Len(ring) - 1 : Cross(ring[i], ring[i + 1], pt) > 0
  \/ \A i \in 1..Len(ring) - 1 : Cross(ring[i], ring[i + 1], pt) < 0
OnRing(pt, ring) ==
  \E i \in 1..Len(ring) - 1 :
    /\ Cross(ring[i], ring[i + 1], pt) = 0
    /\ Between(ring[i][1], ring[i + 1][1], pt[1])
    /\ Between(ring[i][2], ring[i + 1][2], pt[2])
PartsOf(geom) ==
  IF geom.type = "Polygon" THEN {geom.coordinates}
  ELSE IF geom.type = "MultiPolygon"
    THEN {geom.coordinates[p] : p \in 1..Len(geom.coordinates)}
  ELSE {}
OffBoundaries(pt, geom) ==
  \A part \in PartsOf(geom) : \A r \in 1..Len(part) : ~OnRing(pt, part[r])
InsidePart(pt, part) ==
  /\ StrictlyInside(pt, part[1])
  /\ \A h \in 2..Len(part) : ~StrictlyInside(pt, part[h])
Corners(ring) == {ring[i] : i \in 1..Len(ring)}
RECURSIVE SumOver(_, _)
SumOver(S, k) ==
  IF S = {} THEN 0 ELSE LET p == CHOOSE q \in S : TRUE IN p[k] + SumOver(S \ {p}, k)
Centre(ring) ==
  PointResult(Frac(SumOver(Corners(ring), 1), Cardinality(Corners(ring))),
              Frac(SumOver(Corners(ring), 2), Cardinality(Corners(ring))))
Width(ring, k) ==
  LET c == {p[k] : p \in Corners(ring)}
  IN IF c = {} THEN 0 ELSE MaxOf(c) - MinOf(c)
\* twice the area
Area2(ring) ==
  IF Cardinality(Corners(ring)) = 4 THEN 2 * Width(ring, 1) * Width(ring, 2)
  ELSE IF Cardinality(Corners(ring)) = 3 THEN Width(ring, 1) * Width(ring, 2)
  ELSE 0
SameFrac(a, b) == a.den # 0 /\ b.den # 0 /\ a.num * b.den = b.num * a.den
SamePoint(a, b) ==
  a.kind = "point" /\ b.kind = "point" /\ SameFrac(a.x, b.x) /\ SameFrac(a.y, b.y)
OuterRingsOf(geom) ==
  {part[1] : part \in {q \in PartsOf(geom) : Len(q) > 0}}
\* no geometry, no ring, or outer rings without area
Degenerate(geom) ==
  \/ geom.type = "null"
  \/ /\ geom.type \in {"Polygon", "MultiPolygon"}
     /\ \A part \in PartsOf(geom) : Len(part) = 0 \/ Area2(part[1]) = 0

\* C20: geomCentroid never throws; it returns null for a geometry that is
\* missing, has no rings or has an outer ring of area 0; for any other
\* Polygon it returns the centroid of the outer ring, and for any other
\* MultiPolygon the centroid of the outer ring of largest area.
C20_Centroid ==
  gc.ran =>
    /\ gc.out.kind # "throws"
    /\ Degenerate(gc.geom) => gc.out = NullResult
    /\ (~Degenerate(gc.geom) /\ gc.geom.type = "Polygon")
         => SamePoint(gc.out, Centre(gc.geom.coordinates[1]))
    /\ (~Degenerate(gc.geom) /\ gc.geom.type = "MultiPolygon")
         => \E r \in OuterRingsOf(gc.geom) :
              /\ \A q \in OuterRingsOf(gc.geom) : Area2(q) <= Area2(r)
              /\ SamePoint(gc.out, Centre(r))

\* The text of t tenths: an integer without a point when t ends in 0
RenderTenths(t) ==
  IF t % 10 = 0 THEN ToString(t \div 10)
  ELSE ToString(t \div 10) \o "." \o ToString(t % 10)
\* t / 10 is a tenth nearest to 100 * x
NearestTenth(t, x) ==
  /\ 2 * t * x.den - 2000 * x.num <= x.den
  /\ 2000 * x.num - 2 * t * x.den <= x.den

\* C21: fmtPct renders 100 * share rounded to the nearest tenth, without a
\* decimal point exactly when that tenth is a whole number, and then the
\* integer shown is that whole number: 0.4 gives "40", 0.123 "12.3",
\* 0.9996 "100".
C21_FmtPct ==
  fp.ran =>
    /\ \E t \in 0..1001 : NearestTenth(t, fp.x) /\ fp.out = RenderTenths(t)
    /\ fp.x = Frac(4000, 10000) => fp.out = "40"
    /\ fp.x = Frac(1230, 10000) => fp.out = "12.3"
    /\ fp.x = Frac(9996, 10000) => fp.out = "100"

\* 99.96 is rendered as the integer 100
C21_Witness ==
  /\ fp.ran
  /\ fp.x = Frac(PctDen - 4, PctDen)
  /\ 100 * fp.x.num < 100 * fp.x.den
  /\ fp.out = "100"

\* The recorded zones of class k, and the sum of their areas
ZonesOfClass(st, k) == {i \in 1..Len(st.intersections) : st.intersections[i].classIndex = k}
RECURSIVE AreaOfZones(_, _)
AreaOfZones(st, S) ==
  IF S = {} THEN 0
  ELSE LET i == CHOOSE j \in S : TRUE
       IN st.intersections[i].area + AreaOfZones(st, S \ {i})
SameFraction(a, b) == a.num * b.den = b.num * a.den

\* C22: in a returned OverlayResult every listed class carries the sum of
\* the areas of the recorded zones of the class, their number, and that sum
\* divided by the precinct area as its share; a class is listed exactly
\* when its share is above 0 (the share is 0 when the precinct area is 0).
C22_ClassAggregation ==
  (ov.ran /\ ~ov.res.threw) =>
    LET st == ov.res.stats
    IN /\ \A i \in 1..Len(st.classes) :
            LET c == st.classes[i]
                area == AreaOfZones(st, ZonesOfClass(st, c.index))
            IN /\ st.totals.areaByClass[c.index + 1] = area
               /\ c.count = Cardinality(ZonesOfClass(st, c.index))
               /\ st.precinctArea > 0
               /\ SameFraction(c.areaShare, Frac(area, st.precinctArea))
               /\ \A j \in 1..Len(st.classes) : st.classes[j].index = c.index => j = i
       /\ \A k \in 0..4 :
            (\E i \in 1..Len(st.classes) : st.classes[i].index = k)
              <=> (st.precinctArea > 0 /\ AreaOfZones(st, ZonesOfClass(st, k)) > 0)

\* two recorded zones of different classes: two classes listed, three not
C22_Witness ==
  /\ ov.ran /\ ~ov.res.threw
  /\ ov.path = "client"
  /\ Len(ov.res.stats.intersections) = 2
  /\ Len(ov.res.stats.classes) = 2
  /\ ov.res.stats.classes[1].count = 1
  /\ FracLT(ov.res.stats.classes[2].areaShare, ov.res.stats.classes[1].areaShare)

\* C23: in a returned OverlayResult, of either path, the zone list is in
\* descending order of area fraction and the class list in descending order
\* of area share.
C23_Ordered ==
  (ov.ran /\ ~ov.res.threw) =>
    LET st == ov.res.stats
    IN /\ \A i, j \in 1..Len(st.intersections) :
            i < j => FracLE(st.intersections[j].areaPct, st.intersections[i].areaPct)
       /\ \A i, j \in 1..Len(st.classes) :
            i < j => FracLE(st.classes[j].areaShare, st.classes[i].areaShare)

\* the second zone of the collection has the larger fraction and comes
\* first, on the server path
C23_Witness ==
  /\ ov.ran /\ ~ov.res.threw
  /\ ov.path = "server"
  /\ Len(ov.res.stats.intersections) = 2
  /\ ov.res.stats.intersections[1].code = ZoneCode(2)
  /\ FracLT(ov.res.stats.intersections[2].areaPct, ov.res.stats.intersections[1].areaPct)
  /\ Len(ov.res.stats.classes) = 2

\* C24: of two listed classes of equal area share the one of lower class
\* index comes first, so the first class, which the narrative names as the
\* dominant one, is the lowest class of the largest share.
C24_TieOrder ==
  (ov.ran /\ ~ov.res.threw) =>
    LET cls == ov.res.stats.classes
    IN /\ \A i, j \in 1..Len(cls) :
            (i < j /\ SameFraction(cls[i].areaShare, cls[j].areaShare))
              => cls[i].index < cls[j].index
       /\ Len(cls) > 0 =>
            /\ \A j \in 1..Len(cls) :
                 \/ FracLT(cls[j].areaShare, cls[1].areaShare)
                 \/ cls[1].index <= cls[j].index
            /\ NarrativeDominant(cls).label = cls[1].label

\* the higher class is met first in the collection, the two shares are
\* equal, and the lower class is listed first
C24_Witness ==
  /\ ov.ran /\ ~ov.res.threw
  /\ Len(ov.res.stats.classes) = 2
  /\ SameFraction(ov.res.stats.classes[1].areaShare, ov.res.stats.classes[2].areaShare)
  /\ ov.res.stats.classes[1].index < ov.res.stats.classes[2].index
  /\ jobsFiles[2011][1].raw = NumProp(MaxVal)
  /\ jobsFiles[2011][2].raw = NumProp(0)

\* Zone f has a defect: no geometry, a part without area, or a part that
\* meets the precinct and on which the intersection routine throws
ZoneFails(f, pParts) ==
  \/ f.geometry = <<>>
  \/ \E d \in PartSet(f.geometry) : planarArea(d) = 0
  \/ \E d \in FaultyParts(f) : \E pi \in 1..Len(pParts) : pParts[pi] \cap d # {}
Without(features, i) == SelectSeq(features, LAMBDA f : f.code # features[i].code)
RecordSet(res) == {res.stats.intersections[k] : k \in 1..Len(res.stats.intersections)}

\* C25: on the client path a zone with a defect never makes the overlay
\* fail, has no record in the result, and leaves the records of the other
\* zones as they are when the zone is not in the collection.
C25_FailingZoneSkipped ==
  (ov.ran /\ ov.path = "client" /\ ov.fetchFail = "none") =>
    LET feats == OverlayFeatures(ov.yr)
        pParts == PartsOfPrecinct(ov.name)
    IN /\ ov.res.threw =>
            ClientOverlay(ov.name, ov.yr, <<>>, precinctsFile, ov.br).threw
       /\ ~ov.res.threw =>
            \A i \in 1..Len(feats) :
              ZoneFails(feats[i], pParts) =>
                /\ \A r \in RecordSet(ov.res) : r.code # feats[i].code
                /\ RecordSet(ov.res) =
                     RecordSet(ClientOverlay(ov.name, ov.yr, Without(feats, i),
                                             precinctsFile, ov.br))

(***************************************************************************)
(* CSV upload                                                              *)
(***************************************************************************)
NoRepeats(seq) == \A i, j \in 1..Len(seq) : seq[i] = seq[j] => i = j
OkStatus(answer) == answer \in {"ok", "okbad"}
UploadFinishes(r) == uploads[r].pc = "fetch" /\ uploads'[r].pc = "done"

\* C26: a run of handleFileChange or reprocessLastCsv tries the candidate
\* /generate endpoints in their fixed order, each at most once, stops at the
\* first one that answers with an OK status and uses that response; it
\* declares failure only after every candidate was tried without an OK
\* answer, then leaving uploadedGeojson as it was; and whenever a run ends
\* uploading is false.
C26_UploadAttempts ==
  [][\A r \in 1..Len(uploads) :
       LET v == uploads'[r]
       IN /\ v.tried = SubSeq(v.attempts, 1, Len(v.tried))
          /\ NoRepeats(v.tried)
          /\ \A i \in 1..Len(v.answers) : OkStatus(v.answers[i]) => i = Len(v.answers) /\ v.pc = "done"
          /\ UploadFinishes(r) =>
               /\ uploading' = FALSE
               /\ v.result = "set" =>
                    /\ OkStatus(v.answers[Len(v.answers)])
                    /\ uploadedGeojson' = [req |-> r, file |-> v.file, scale |-> v.scale]
               /\ v.result = "failed" =>
                    /\ {v.tried[i] : i \in 1..Len(v.tried)} = {v.attempts[i] : i \in 1..Len(v.attempts)}
                    /\ \A i \in 1..Len(v.answers) : ~OkStatus(v.answers[i])
                    /\ uploadedGeojson' = uploadedGeojson]_vars

InFlight(r) == r \in 1..Len(uploads) /\ uploads[r].pc = "fetch"
LastUpload == uploads[Len(uploads)]

\* C29: in every interleaving of file uploads and scale changes, uploading is
\* true whenever a /generate request is in flight, and once none is in
\* flight the displayed GeoJSON is the answer to the most recently started
\* request (when that request was answered).
C29_LatestUploadShown ==
  /\ (\E r \in 1..MaxUploads : InFlight(r)) => uploading
  /\ (uploads # <<>> /\ LastUpload.result = "set" /\ ~\E r \in 1..MaxUploads : InFlight(r)) =>
       uploadedGeojson = [req |-> Len(uploads), file |-> LastUpload.file, scale |-> LastUpload.scale]

(***************************************************************************)
(* The description panel                                                   *)
(***************************************************************************)
Pending(i) == i \in 1..Len(calls) /\ calls[i].pc # "done"
ForCurrentFocus(c) ==
  /\ c.type = panelFocus.type
  /\ c.name = panelFocus.name
  /\ c.type = "precinct" => c.yr = selectedYear
CurrentKey ==
  IF panelFocus.type = "precinct" THEN PrecinctKey(panelFocus.name, selectedYear)
  ELSE IndicatorKey(panelFocus.name)
\* What a run for the current focus and year may leave in the panel: its
\* text, or what the effect shows when the generation failed
GeneratedForFocus ==
  {descriptionCache[CurrentKey]}
  \cup (IF panelFocus.type = "indicator"
        THEN {LLMText(panelFocus.name), QuotaMessage, ErrorMessage("failed")}
        ELSE {""} \cup {generatePrecinctNarrativeDeterministic(calls[i].res.stats, metaScale) :
                          i \in {j \in 1..Len(calls) :
                                   /\ calls[j].pc = "done"
                                   /\ ForCurrentFocus(calls[j])
                                   /\ ~calls[j].res.threw}})
Settles(i) == Pending(i) /\ calls'[i].pc = "done"

\* C27: once no description or overlay request is pending, the panel shows
\* the description generated for the current focus and the selected year
\* and the loading flag is false; and the answer to a request made for
\* another focus or year never changes the description shown.
C27_CurrentDescription ==
  /\ []((~\E i \in 1..MaxCalls : Pending(i)) =>
          dynamicDescription \in GeneratedForFocus /\ ~isDescriptionLoading)
  /\ [][\A i \in 1..Len(calls) :
          (Settles(i) /\ ~ForCurrentFocus(calls[i])) => dynamicDescription' = dynamicDescription]_vars

(***************************************************************************)
(* The jobs legend, lines 2416-2436                                        *)
(***************************************************************************)
\* const br = jobsBreaks && jobsBreaks.length === 4 ? jobsBreaks : [591, ...]
LegendBreaks(breaks) == IF Len(breaks) = 4 THEN breaks ELSE DefaultBreaks
\* The lower ends of the five ranges, in class order
LegendMins(breaks) == <<Frac(0, 1)>> \o LegendBreaks(breaks)
\* The class whose range [min, max) holds the value: the last range that
\* starts at or below it
LegendClass(val, breaks) ==
  LET starts == {i \in 1..5 : ~LessThanBreak(val, LegendMins(breaks)[i])}
  IN (CHOOSE i \in starts : \A k \in starts : k <= i) - 1

NarrativeOf(c) == generatePrecinctNarrativeDeterministic(c.res.stats, metaScale)
Narrated(c) == c.type = "precinct" /\ c.pc = "done" /\ ~c.res.threw
Displayed(c) ==
  /\ panelFocus = Focus("precinct", c.name)
  /\ dynamicDescription = NarrativeOf(c)
Cached(c) == descriptionCache[c.cacheKey] = NarrativeOf(c)

\* C28: at every moment the class a displayed or cached precinct narrative
\* is built on, for each zone value, is the class of the legend range that
\* holds the value: narrative, cache entry and legend use the same
\* breakpoints, whatever the order of loading, clicks and year changes.
C28_NarrativeMatchesLegend ==
  \A i \in 1..Len(calls) :
    (Narrated(calls[i]) /\ (Displayed(calls[i]) \/ Cached(calls[i]))) =>
      \A k \in 1..Len(calls[i].res.stats.intersections) :
        LET rec == calls[i].res.stats.intersections[k]
        IN rec.classIndex = LegendClass(rec.value, jobsBreaks)

(***************************************************************************)
(* Hover state                                                             *)
(***************************************************************************)
\* C30: after any sequence of mousemove and mouseleave events each source
\* has at most one feature whose hover state is true, that feature is the
\* one hoverStateBySource holds for the source, and after a mouseleave on a
\* layer no feature of its source is hovered.
C30_SingleHover ==
  /\ [](\A src \in HoverSources :
          /\ Cardinality(featureState[src]) <= 1
          /\ \A id \in featureState[src] : hoverStateBySource[src] = id)
  /\ [][\A layer \in HoverLayers :
          MouseLeave(layer) => featureState'[LayerSource(layer)] = {}]_vars

\* the pointer went from feature 0 to feature 1 of the 2011 layer, and
\* a jobs layer was left, and a feature of the uploaded layer is hovered
C30_Witness ==
  /\ featureState["jobs-dzn-2011-data-source"] = {1}
  /\ hoverStateBySource["jobs-dzn-2011-data-source"] = 1
  /\ hoveredDZNCode = ""
  /\ featureState["uploaded-geojson-source"] = {0}
====
